---- MODULE Spec2Model ----
(***************************************************************************)
(* A model of the StreamHub IPTV client: the Local Store (lib/db.ts), the  *)
(* UI store (store/useStore.ts), the import handlers (ImportModal.tsx),    *)
(* the paginated channel hook useChannelsFromDB (its source is the second  *)
(* half of cloudflare-worker/README.md) and the M3U parser parseM3U (its   *)
(* source follows the hook of hooks/useContentCountsFromDB.ts).            *)
(*                                                                         *)
(* Conventions.  A JavaScript string is a sequence of one-character        *)
(* strings; the empty string and `undefined` are both <<>> (the code only  *)
(* ever tests such fields for truthiness).  An optional number is <<>> or  *)
(* <<n>>.  The optional boolean isFavorite is "undefined", "true" or       *)
(* "false".  Identifiers produced by crypto.randomUUID() are drawn from     *)
(* finite pools; the key order of the store is the order of the pool.      *)
(***************************************************************************)
EXTENDS Integers, Sequences, FiniteSets, TLC

VARIABLES
    \* Local Store (IndexedDB 'iptv-player-db'): committed contents
    dbPlaylists,      \* playlist id -> metadata record
    dbChannels,       \* channel id  -> channel record (with playlistId)
    \* the readwrite transaction in progress, and its uncommitted view
    tx, wPlaylists, wChannels,
    \* UI store (zustand)
    playlists, activePlaylistId, playlistToUpdate,
    \* the import handler of ImportModal
    imp,
    \* history of what the user asked for
    favMarks, deletedIds,
    \* favourites merge, taken alone
    mg,
    \* useChannelsFromDB, with the search text, group and content filter
    \* of the UI store
    hk,
    \* parseM3U, detectContentType
    ps,
    \* fetchXtreamChannels and fetchXtreamSeriesEpisodes
    xt,
    \* the last call of saveChannels, deletePlaylist, clearAllData or
    \* toggleChannelFavorite, with what it returned
    call,
    \* the connection of getDB and resetDatabase
    conn,
    \* UI store: the play history, the channel playing; the clock
    history, currentChannel, now,
    \* SeriesDrawer, and the requests it has sent
    dr

dbVars == <<dbPlaylists, dbChannels, tx, wPlaylists, wChannels>>
uiVars == <<playlists, activePlaylistId, playlistToUpdate>>
ghostVars == <<favMarks, deletedIds>>
appVars == <<dbVars, uiVars, imp, ghostVars>>
earlyVars == <<mg, hk, ps, xt, call>>
lateVars == <<conn, history, currentChannel, now, dr>>
vars == <<dbPlaylists, dbChannels, tx, wPlaylists, wChannels,
          playlists, activePlaylistId, playlistToUpdate, imp,
          favMarks, deletedIds, mg, hk, ps, xt, call,
          conn, history, currentChannel, now, dr>>

-----------------------------------------------------------------------------
(* Bounds and pools *)

\* longest channel list handed to one save / returned by one fetch
MaxItems == 1

\* db.ts: const BATCH_SIZE = 1000
BATCH_SIZE == 1000

\* playlist ids, in the key order of the 'playlists' object store
PlaylistKeyOrder == <<"p1", "p2", "tmp">>

\* the ids crypto.randomUUID() gives the playlists the import handlers save
PlaylistIds == {"p1", "p2"}

\* channel ids, in the key order of the 'channels' object store
ChannelKeyOrder == <<"c1", "c2", "c3", "c4", "c5", "c6">>
ChannelIds == {ChannelKeyOrder[i] : i \in 1..Len(ChannelKeyOrder)}

NULL == "null"

\* the id addPlaylist gives the entry it adds to the UI store: a fresh
\* crypto.randomUUID(), never the id the record was saved under
UnsavedId == "tmp"

ContentTypes == {"live", "movie", "series"}

-----------------------------------------------------------------------------
(* Generic helpers *)

Range(s) == {s[i] : i \in 1..Len(s)}

Min2(a, b) == IF a < b THEN a ELSE b

KeyRank(order, k) == CHOOSE i \in 1..Len(order) : order[i] = k

\* the elements of the key set ks, in key order
RECURSIVE InKeyOrder(_, _)
InKeyOrder(order, ks) ==
    IF order = <<>> THEN <<>>
    ELSE IF Head(order) \in ks
         THEN <<Head(order)>> \o InKeyOrder(Tail(order), ks)
         ELSE InKeyOrder(Tail(order), ks)

\* objectStore.put(value): insert or overwrite by key
Put(store, key, value) ==
    [k \in DOMAIN store \cup {key} |-> IF k = key THEN value ELSE store[k]]

\* objectStore.delete(key) / cursor.delete()
Delete(store, key) == [k \in DOMAIN store \ {key} |-> store[k]]

EmptyStore == [k \in {} |-> 0]

\* index 'by-playlist': the keys of the records of one playlist
ByPlaylist(channels, pid) ==
    {k \in DOMAIN channels : channels[k].playlistId = pid}

-----------------------------------------------------------------------------
(* Local Store: one readwrite transaction over ['playlists', 'channels'].   *)
(* Requests of a transaction act on its own view (wPlaylists, wChannels);   *)
(* the view becomes the committed contents when the transaction completes   *)
(* and is dropped when a request fails and the transaction aborts.          *)

TxIdle == [pc |-> "idle", pid |-> NULL, meta |-> [id |-> NULL],
           channels |-> <<>>, replace |-> FALSE, i |-> 0, last |-> "none",
           snapP |-> EmptyStore, snapC |-> EmptyStore]

\* a savePlaylist that takes no notice of options.replace
SavePlaylistBeginKeepsOld(playlist, replace) ==
    [pc |-> "putMeta", pid |-> playlist.id,
     meta |-> [id |-> playlist.id, type |-> playlist.type, url |-> playlist.url],
     channels |-> playlist.channels, replace |-> replace, i |-> 0,
     last |-> "none", snapP |-> dbPlaylists, snapC |-> dbChannels]

\* savePlaylist(playlist, options): the part before the first request
\* (snapP, snapC remember what was committed when the call was made)
SavePlaylistBegin(playlist, replace) ==
    [pc |-> IF replace THEN "delete" ELSE "putMeta",
     pid |-> playlist.id,
     meta |-> [id |-> playlist.id, type |-> playlist.type, url |-> playlist.url],
     channels |-> playlist.channels, replace |-> replace, i |-> 0,
     last |-> "none", snapP |-> dbPlaylists, snapC |-> dbChannels]

\* while (cursor) { await cursor.delete(); cursor = await cursor.continue(); }
CursorDeleteStep(channels, pid) ==
    LET ks == InKeyOrder(ChannelKeyOrder, ByPlaylist(channels, pid))
    IN  IF ks = <<>> THEN channels ELSE Delete(channels, Head(ks))

\* tx.objectStore('playlists').put({...playlistMeta, channelCount: channels.length})
PutPlaylistMeta(store, meta, channels) ==
    Put(store, meta.id, [id |-> meta.id, type |-> meta.type, url |-> meta.url,
                         channelCount |-> Len(channels)])

\* { ...channel, playlistId }
Stored(c, pid) ==
    [id |-> c.id, playlistId |-> pid, name |-> c.name, url |-> c.url,
     group |-> c.group, contentType |-> c.contentType,
     isFavorite |-> c.isFavorite, seriesId |-> c.seriesId,
     seriesName |-> c.seriesName, seasonNum |-> c.seasonNum,
     episodeNum |-> c.episodeNum]

\* batch.map((channel) => channelStore.put({ ...channel, playlistId }))
RECURSIVE PutBatch(_, _, _)
PutBatch(store, batch, pid) ==
    IF batch = <<>> THEN store
    ELSE PutBatch(Put(store, Head(batch).id, Stored(Head(batch), pid)),
                  Tail(batch), pid)

\* channels.slice(i, i + BATCH_SIZE)
Slice(s, from, to) == SubSeq(s, from + 1, Min2(to, Len(s)))

\* the replace loop, run until the cursor is exhausted
RECURSIVE CursorDeleteAll(_, _)
CursorDeleteAll(channels, pid) ==
    IF ByPlaylist(channels, pid) = {} THEN channels
    ELSE CursorDeleteAll(CursorDeleteStep(channels, pid), pid)

\* for (let i = 0; i < channels.length; i += BATCH_SIZE) { ...put batch... }
RECURSIVE PutBatches(_, _, _, _)
PutBatches(store, channels, pid, i) ==
    IF i < Len(channels)
    THEN PutBatches(PutBatch(store, Slice(channels, i, i + BATCH_SIZE), pid),
                    channels, pid, i + BATCH_SIZE)
    ELSE store

\* what a completed transaction leaves committed: its view
CommitResult(committed, view) == view

\* an abort that keeps what the transaction wrote
AbortKeepsView(committed, view) == view

\* what an aborted transaction leaves committed: what was committed before
AbortResult(committed, view) == committed

\* savePlaylist(playlist, {replace}) run to the end of its transaction:
\* the 'channels' store it leaves committed
SavedChannels(committed, playlist, replace, ok) ==
    LET cleared == IF replace THEN CursorDeleteAll(committed, playlist.id)
                   ELSE committed
        view == PutBatches(cleared, playlist.channels, playlist.id, 0)
    IN  IF ok THEN CommitResult(committed, view)
        ELSE AbortResult(committed, view)

\* ... and the 'playlists' store it leaves committed
SavedPlaylists(committed, playlist, ok) ==
    LET meta == [id |-> playlist.id, type |-> playlist.type, url |-> playlist.url]
        view == PutPlaylistMeta(committed, meta, playlist.channels)
    IN  IF ok THEN CommitResult(committed, view)
        ELSE AbortResult(committed, view)

-----------------------------------------------------------------------------
(* UI store (store/useStore.ts) *)

NoPlaylist == [id |-> NULL, type |-> "none", url |-> <<>>, channels |-> <<>>]

\* s.playlists.find((p) => p.id === id)
FindPlaylist(list, id) ==
    IF \E i \in 1..Len(list) : list[i].id = id
    THEN list[CHOOSE i \in 1..Len(list) :
                 /\ list[i].id = id
                 /\ \A j \in 1..(i - 1) : list[j].id # id]
    ELSE NoPlaylist

StoreIds(list) == {list[i].id : i \in 1..Len(list)}

\* !c.isFavorite
Negate(flag) == IF flag = "true" THEN "false" ELSE "true"

\* toggleFavorite(playlistId, channelId)
ToggleFavoriteIn(list, pid, cid) ==
    [i \in 1..Len(list) |->
        IF list[i].id = pid
        THEN [list[i] EXCEPT !.channels =
                 [j \in 1..Len(list[i].channels) |->
                     IF list[i].channels[j].id = cid
                     THEN [list[i].channels[j] EXCEPT
                              !.isFavorite = Negate(list[i].channels[j].isFavorite)]
                     ELSE list[i].channels[j]]]
        ELSE list[i]]

\* updatePlaylistChannels(id, channels)
UpdatePlaylistChannelsIn(list, pid, channels) ==
    [i \in 1..Len(list) |->
        IF list[i].id = pid THEN [list[i] EXCEPT !.channels = channels]
        ELSE list[i]]

\* addPlaylist(playlist): [...state.playlists, { ...playlist, id, lastUpdated }]
AddPlaylistTo(list, id, meta) ==
    Append(list, [id |-> id, type |-> meta.type, url |-> meta.url,
                  channels |-> <<>>])

\* addPlaylist(playlist): state.activePlaylistId || id
ActiveAfterAdd(active, id) == IF active # NULL THEN active ELSE id

\* removePlaylist(id): the list without id
RemoveFrom(list, id) == SelectSeq(list, LAMBDA p : p.id # id)

\* removePlaylist(id): state.playlists[0]?.id || null, read from the list
\* as it was before the removal
ActiveAfterRemove(list, active, id) ==
    IF active = id
    THEN (IF Len(list) > 0 THEN list[1].id ELSE NULL)
    ELSE active

\* refreshPlaylists: getAll('playlists') in key order, channels: []
RefreshedList(dbP) ==
    LET ks == InKeyOrder(PlaylistKeyOrder, DOMAIN dbP)
    IN  [i \in 1..Len(ks) |->
            [id |-> dbP[ks[i]].id, type |-> dbP[ks[i]].type,
             url |-> dbP[ks[i]].url, channels |-> <<>>]]

\* refreshPlaylists: playlists.length > 0 ? playlists[0].id : null
RefreshedActive(list) == IF Len(list) > 0 THEN list[1].id ELSE NULL

-----------------------------------------------------------------------------
(* Import handlers (components/ImportModal.tsx) *)

ImportOptions == {"all", "live", "live-movies", "live-series"}

\* filterChannelsByOption
PassesOption(c, option) ==
    CASE option = "live" -> c.contentType = "live"
      [] option = "live-movies" -> c.contentType \in {"live", "movie"}
      [] option = "live-series" -> c.contentType \in {"live", "series"}
      [] OTHER -> TRUE

FilterChannelsByOption(channels, option) ==
    SelectSeq(channels, LAMBDA c : PassesOption(c, option))

\* the URLs of all existing items, starred or not
FavoriteUrlsAll(existing) == {existing[i].url : i \in 1..Len(existing)}

\* new Set(existingPlaylist.channels.filter(c => c.isFavorite).map(c => c.url))
RECURSIVE FavoriteUrls(_)
FavoriteUrls(existing) ==
    IF existing = <<>> THEN {}
    ELSE IF Head(existing).isFavorite = "true"
         THEN {Head(existing).url} \cup FavoriteUrls(Tail(existing))
         ELSE FavoriteUrls(Tail(existing))

\* isFavorite: favoriteChannelIds.has(channel.url)
HasUrl(favorites, c) == IF c.url \in favorites THEN "true" ELSE "false"

\* filteredChannels.map(channel => ({...channel, isFavorite: ...}))
MergeFavorites(existing, fresh) ==
    LET favoriteChannelIds == FavoriteUrls(existing)
    IN  [i \in 1..Len(fresh) |->
            [fresh[i] EXCEPT !.isFavorite = HasUrl(favoriteChannelIds, fresh[i])]]

\* checks that let through what was fetched before a content family failed
ImportCheckKeepsPartial(outcome, channels, filtered) ==
    IF outcome \in {"fetchError", "authFail"} THEN outcome
    ELSE IF Len(channels) = 0 THEN "noChannels"
    ELSE IF Len(filtered) = 0 THEN "noMatch"
    ELSE "ok"

\* the checks between the fetch and the save:
\*   if (!response.ok) throw ...           / fetchXtreamChannels throws
\*   if (result.channels.length === 0) throw new Error('No channels found ...')
\*   if (filteredChannels.length === 0) throw new Error('No channels match ...')
ImportCheck(outcome, channels, filtered) ==
    IF outcome # "ok" THEN outcome
    ELSE IF Len(channels) = 0 THEN "noChannels"
    ELSE IF Len(filtered) = 0 THEN "noMatch"
    ELSE "ok"

\* what the source of one kind of import can answer: a fetch error, an Xtream
\* authentication or account-state failure, a content family failing after
\* earlier families were fetched
Outcomes(kind) ==
    CASE kind = "m3u" -> {"ok", "fetchError"}
      [] kind = "xtream" -> {"ok", "fetchError", "authFail", "familyFail"}
      [] kind = "file" -> {"ok"}
      [] OTHER -> {}

\* parsed or fetched items, before crypto.randomUUID() names them
UrlA == <<"a">>
UrlB == <<"b">>
NameCNN == <<"C">>
NameUp == <<"U">>
GroupNews == <<"N">>
GroupMovies == <<"M">>

Item(name, url, group, type) ==
    [name |-> name, url |-> url, group |-> group, contentType |-> type,
     isFavorite |-> "undefined", seriesId |-> <<>>, seriesName |-> <<>>,
     seasonNum |-> <<>>, episodeNum |-> <<>>]

AppItems == {Item(NameCNN, UrlA, GroupNews, "live"),
             Item(NameUp, UrlB, GroupMovies, "movie")}

ItemLists(pool) == UNION {[1..n -> pool] : n \in 0..MaxItems}

\* id: crypto.randomUUID()
WithIds(items, ids) ==
    [i \in 1..Len(items) |->
        [id |-> ids[i], name |-> items[i].name, url |-> items[i].url,
         group |-> items[i].group, contentType |-> items[i].contentType,
         isFavorite |-> items[i].isFavorite, seriesId |-> items[i].seriesId,
         seriesName |-> items[i].seriesName, seasonNum |-> items[i].seasonNum,
         episodeNum |-> items[i].episodeNum]]

\* channel ids no record or list refers to, in key order
FreeChannelIds ==
    InKeyOrder(ChannelKeyOrder,
               ChannelIds \ (DOMAIN dbChannels \cup
                   UNION {{playlists[i].channels[j].id :
                              j \in 1..Len(playlists[i].channels)} :
                          i \in 1..Len(playlists)}))

\* playlist ids nothing refers to
FreePlaylistIds ==
    PlaylistIds \ (DOMAIN dbPlaylists \cup StoreIds(playlists) \cup deletedIds
                   \cup {activePlaylistId, playlistToUpdate})

-----------------------------------------------------------------------------
(* The import handlers: handleImportM3U, handleImportXtream,                *)
(* handleFileUpload.  A handler runs from the click to the end of its       *)
(* try/catch: fetch, parse, filter, merge, savePlaylist, the update of the  *)
(* UI store and refreshPlaylists.                                           *)

pureVars == <<mg, hk, ps, xt, call, lateVars>>
txVars == <<tx, wPlaylists, wChannels>>

\* how a storage write fails: QuotaExceededError, or another error
FailKinds == {"quota", "other"}

\* what the modal shows of the last run of a handler: success or the error
\* (a quota error also sets showClearCacheOption)
ImpIdle == [result |-> "none", error |-> "none"]

\* the playlist a create-mode import saves
NewPlaylist(pid, kind, channels) ==
    [id |-> pid, type |-> IF kind = "xtream" THEN "xtream" ELSE "m3u",
     url |-> IF kind = "m3u" THEN UrlA ELSE <<>>, channels |-> channels]

\* setSuccess(true) / setError(errorMsg): of the message the model keeps
\* whether the run threw in its save (and then with which error) or before it
ImportSummary(result, error) ==
    [result |-> result,
     error |-> IF error \in {"none"} \cup FailKinds THEN error ELSE "rejected"]

\* await refreshPlaylists(): set({playlists, activePlaylistId}) from the
\* committed records (getDBPlaylists is taken to resolve: the catch block
\* only logs)
Refreshed(store, dbP) ==
    [store EXCEPT !.playlists = RefreshedList(dbP),
                  !.activePlaylistId = RefreshedActive(RefreshedList(dbP))]


\* UPDATE MODE: merge, savePlaylist(..., {replace: true}),
\* updatePlaylistChannels, refreshPlaylists, handleClose
ImportUpdate(kind, option, outcome, items, existing, filtered, saved) ==
    LET merged == MergeFavorites(existing.channels, filtered)
        playlist == [existing EXCEPT !.channels = merged]
    IN  /\ dbChannels' = SavedChannels(dbChannels, playlist, TRUE, saved = "ok")
        /\ dbPlaylists' = SavedPlaylists(dbPlaylists, playlist, saved = "ok")
        /\ IF saved = "ok"
           THEN LET updated == [playlists |->
                                    UpdatePlaylistChannelsIn(playlists,
                                                             existing.id, merged),
                                activePlaylistId |-> activePlaylistId]
                    r == Refreshed(updated, dbPlaylists')
                IN  /\ playlists' = r.playlists
                    /\ activePlaylistId' = r.activePlaylistId
                    /\ playlistToUpdate' = NULL
                    /\ imp' = ImportSummary("done", "none")
           ELSE /\ imp' = ImportSummary("error", saved)
                /\ UNCHANGED uiVars

\* CREATE MODE: savePlaylist(playlist), addPlaylist (not for a file upload),
\* refreshPlaylists, handleClose
ImportCreate(kind, option, outcome, items, filtered, saved) ==
    \E pid \in FreePlaylistIds :
        LET playlist == NewPlaylist(pid, kind, filtered)
        IN  /\ kind # "file" =>
                  UnsavedId \notin (StoreIds(playlists) \cup DOMAIN dbPlaylists
                                        \cup deletedIds)
            /\ dbChannels' = SavedChannels(dbChannels, playlist, FALSE, saved = "ok")
            /\ dbPlaylists' = SavedPlaylists(dbPlaylists, playlist, saved = "ok")
            /\ IF saved = "ok"
               THEN LET added ==
                            IF kind = "file"
                            THEN [playlists |-> playlists,
                                  activePlaylistId |-> activePlaylistId]
                            ELSE [playlists |->
                                      AddPlaylistTo(playlists, UnsavedId, playlist),
                                  activePlaylistId |->
                                      ActiveAfterAdd(activePlaylistId, UnsavedId)]
                        r == Refreshed(added, dbPlaylists')
                    IN  /\ playlists' = r.playlists
                        /\ activePlaylistId' = r.activePlaylistId
                        /\ playlistToUpdate' = NULL
                        /\ imp' = ImportSummary("done", "none")
               ELSE /\ imp' = ImportSummary("error", saved)
                    /\ UNCHANGED uiVars

\* what the source has handed over when it answers: nothing after a fetch
\* error or an authentication failure, the families fetched so far otherwise
Fetched(outcome) ==
    IF outcome \in {"fetchError", "authFail"} THEN {<<>>}
    ELSE ItemLists(AppItems)

\* whether a run gets as far as savePlaylist
ReachesSave(outcome, items, option) ==
    /\ outcome = "ok"
    /\ \E i \in 1..Len(items) : PassesOption(items[i], option)

\* the fates of the save of a run that gets to it
SaveOutcomes(outcome, items, option) ==
    IF ReachesSave(outcome, items, option) THEN {"ok"} \cup FailKinds ELSE {"ok"}

\* one run of a handler
Import(kind, option, outcome, items, saved) ==
    /\ outcome \in Outcomes(kind)
    /\ Len(items) <= Len(FreeChannelIds)
    /\ LET existing == FindPlaylist(playlists, playlistToUpdate)
           update == playlistToUpdate # NULL /\ existing.id # NULL
                         /\ kind # "file"
           channels == WithIds(items, FreeChannelIds)
           filtered == FilterChannelsByOption(channels, option)
           check == ImportCheck(outcome, channels, filtered)
       IN  /\ update => kind = existing.type
           /\ kind = "file" => playlistToUpdate = NULL
           /\ IF check # "ok"
              THEN /\ imp' = ImportSummary("error", check)
                   /\ UNCHANGED <<dbPlaylists, dbChannels, uiVars>>
              ELSE IF update
                   THEN ImportUpdate(kind, option, outcome, items, existing,
                                     filtered, saved)
                   ELSE ImportCreate(kind, option, outcome, items, filtered,
                                     saved)
    /\ UNCHANGED <<txVars, pureVars>>

\* handleClose: setIsOpen(false); setPlaylistToUpdate(null); resetForm()
ImportClose ==
    /\ imp.result = "error" \/ playlistToUpdate # NULL
    /\ imp' = ImpIdle
    /\ playlistToUpdate' = NULL
    /\ UNCHANGED <<dbVars, playlists, activePlaylistId, pureVars>>

\* 'Clear All Data': await resetDatabase(); window.location.reload().  The
\* persisted part of the UI store (playlists, activePlaylistId) survives.
ResetAndReload ==
    /\ imp.result = "error"
    /\ imp.error = "quota"
    /\ dbPlaylists' = EmptyStore
    /\ dbChannels' = EmptyStore
    /\ imp' = ImpIdle
    /\ playlistToUpdate' = NULL
    /\ UNCHANGED <<txVars, playlists, activePlaylistId, pureVars>>

-----------------------------------------------------------------------------
(* Actions of the sidebar and the channel list *)

\* Sidebar: onClick={() => setActivePlaylist(playlist.id)}
SetActivePlaylist(id) ==
    /\ id \in StoreIds(playlists)
    /\ activePlaylistId # id
    /\ activePlaylistId' = id
    /\ UNCHANGED <<dbVars, playlists, playlistToUpdate, imp, pureVars>>

\* Sidebar, Delete: removePlaylist(playlist.id)
RemovePlaylist(id) ==
    /\ id \in StoreIds(playlists)
    /\ playlists' = RemoveFrom(playlists, id)
    /\ activePlaylistId' = ActiveAfterRemove(playlists, activePlaylistId, id)
    /\ UNCHANGED <<dbVars, playlistToUpdate, imp, pureVars>>

\* Sidebar, Update: useStore.getState().setPlaylistToUpdate(playlist.id)
SetPlaylistToUpdate(id) ==
    /\ playlistToUpdate # id
    /\ LET p == FindPlaylist(playlists, id)
       IN  /\ p.id # NULL
           /\ (p.type = "m3u" /\ p.url # <<>>) \/ p.type = "xtream"
    /\ playlistToUpdate' = id
    /\ UNCHANGED <<dbVars, playlists, activePlaylistId, imp, pureVars>>

\* ChannelList handleToggleFavorite(e, channel), on a channel the list shows
\* (a record of the active playlist read from the Local Store):
\*   if (activePlaylist) toggleFavorite(activePlaylist.id, channel.id)
ToggleFavorite(cid) ==
    /\ FindPlaylist(playlists, activePlaylistId).id # NULL
    /\ cid \in ByPlaylist(dbChannels, activePlaylistId)
    /\ playlists' = ToggleFavoriteIn(playlists, activePlaylistId, cid)
    /\ UNCHANGED <<dbVars, activePlaylistId, playlistToUpdate, imp, pureVars>>

-----------------------------------------------------------------------------
(* History of what the user asked for, kept beside the program's state *)

\* the star of the channel cid of the active playlist changes sides
MarkToggled(cid) ==
    favMarks' =
        LET m == <<activePlaylistId, dbChannels[cid].url>>
        IN  IF m \in favMarks THEN favMarks \ {m} ELSE favMarks \cup {m}

\* the user has asked for the playlist id to be deleted
MarkDeleted(id) == deletedIds' = deletedIds \cup {id}

-----------------------------------------------------------------------------
(* savePlaylist, request by request.  Readers (getChannels, getPlaylists,   *)
(* getContentCounts) run in transactions of their own and see the           *)
(* committed contents dbPlaylists, dbChannels.                              *)

othersThanDb == <<playlists, activePlaylistId, playlistToUpdate, imp,
                  favMarks, deletedIds, mg, hk, ps, xt, call, lateVars>>

\* longest channel list handed to one savePlaylist call
MaxSaved == 2

\* the playlists handed to savePlaylist: ids may already be stored, under the
\* same playlist or under another one
SavedChannelIds == {"c1", "c2"}

SavedChannel(id) ==
    LET item == IF id = "c2" THEN Item(NameUp, UrlB, GroupMovies, "movie")
                ELSE Item(NameCNN, UrlA, GroupNews, "live")
    IN  WithIds(<<item>>, <<id>>)[1]

SavedLists ==
    UNION {[1..n -> {SavedChannel(id) : id \in SavedChannelIds}] : n \in 0..MaxSaved}

\* savePlaylist(playlist, options) up to its first request
SavePlaylistCall(pid, channels, replace) ==
    /\ tx.pc = "idle"
    /\ tx' = SavePlaylistBegin(NewPlaylist(pid, "m3u", channels), replace)
    /\ wPlaylists' = dbPlaylists
    /\ wChannels' = dbChannels
    /\ UNCHANGED <<dbPlaylists, dbChannels>>
    /\ UNCHANGED othersThanDb

\* the replace loop over the 'by-playlist' cursor
TxDelete ==
    /\ tx.pc = "delete"
    /\ IF ByPlaylist(wChannels, tx.pid) = {}
       THEN /\ tx' = [tx EXCEPT !.pc = "putMeta"]
            /\ UNCHANGED wChannels
       ELSE /\ wChannels' = CursorDeleteStep(wChannels, tx.pid)
            /\ UNCHANGED tx
    /\ UNCHANGED <<dbPlaylists, dbChannels, wPlaylists>>
    /\ UNCHANGED othersThanDb

\* the metadata put
TxPutMeta ==
    /\ tx.pc = "putMeta"
    /\ wPlaylists' = PutPlaylistMeta(wPlaylists, tx.meta, tx.channels)
    /\ tx' = [tx EXCEPT !.pc = "putChannels", !.i = 0]
    /\ UNCHANGED <<dbPlaylists, dbChannels, wChannels>>
    /\ UNCHANGED othersThanDb

\* for (i = 0; i < channels.length; i += BATCH_SIZE)
TxPutChannels ==
    /\ tx.pc = "putChannels"
    /\ IF tx.i < Len(tx.channels)
       THEN /\ wChannels' = PutBatch(wChannels,
                                     Slice(tx.channels, tx.i, tx.i + BATCH_SIZE),
                                     tx.pid)
            /\ tx' = [tx EXCEPT !.i = tx.i + BATCH_SIZE]
       ELSE /\ tx' = [tx EXCEPT !.pc = "commit"]
            /\ UNCHANGED wChannels
    /\ UNCHANGED <<dbPlaylists, dbChannels, wPlaylists>>
    /\ UNCHANGED othersThanDb

\* await tx.done resolves
TxCommit ==
    /\ tx.pc = "commit"
    /\ dbPlaylists' = CommitResult(dbPlaylists, wPlaylists)
    /\ dbChannels' = CommitResult(dbChannels, wChannels)
    /\ wPlaylists' = EmptyStore
    /\ wChannels' = EmptyStore
    /\ tx' = [tx EXCEPT !.pc = "idle", !.last = "committed"]
    /\ UNCHANGED othersThanDb

\* a request of the transaction fails (QuotaExceededError or another error):
\* the transaction aborts and the awaited promise rejects
TxFail(kind) ==
    /\ tx.pc \in {"delete", "putMeta", "putChannels", "commit"}
    /\ dbPlaylists' = AbortResult(dbPlaylists, wPlaylists)
    /\ dbChannels' = AbortResult(dbChannels, wChannels)
    /\ wPlaylists' = EmptyStore
    /\ wChannels' = EmptyStore
    /\ tx' = [tx EXCEPT !.pc = "idle", !.last = kind]
    /\ UNCHANGED othersThanDb

NextDB ==
    \/ \E pid \in PlaylistIds, channels \in SavedLists, replace \in BOOLEAN :
           SavePlaylistCall(pid, channels, replace)
    \/ TxDelete
    \/ TxPutMeta
    \/ TxPutChannels
    \/ TxCommit
    \/ \E kind \in FailKinds : TxFail(kind)


-----------------------------------------------------------------------------
(* The other writers of the Local Store: saveChannels, deletePlaylist,     *)
(* clearAllData and toggleChannelFavorite, src/src/lib/db.ts 89-122 and    *)
(* 223-266.  Each runs in one readwrite transaction, so a call is one step *)
(* on the committed contents; a transaction that fails leaves them as they *)
(* were.                                                                    *)

NoCall == [op |-> "none", id |-> NULL, before |-> "none", returned |-> "none"]

\* saveChannels: the 'channels' store after the batches of puts
SaveChannelsChannels(channels, playlistId, items) ==
    PutBatches(channels, items, playlistId, 0)

\* a count taken over the whole 'channels' store
SaveChannelsCountsAll(store, written, playlistId) ==
    IF playlistId \in DOMAIN store
    THEN Put(store, playlistId,
             [store[playlistId] EXCEPT !.channelCount = Cardinality(DOMAIN written)])
    ELSE store

\* saveChannels, lines 112-119: the 'playlists' store after the count of the
\* playlist, when there is one, is set from the index
SaveChannelsPlaylists(store, written, playlistId) ==
    IF playlistId \in DOMAIN store
    THEN Put(store, playlistId,
             [store[playlistId] EXCEPT
                 !.channelCount = Cardinality(ByPlaylist(written, playlistId))])
    ELSE store

\* a toggleChannelFavorite that leaves an unset flag unset
ToggledKeepsUnset(channels, channelId) ==
    IF channels[channelId].isFavorite = "undefined" THEN channels
    ELSE Put(channels, channelId,
             [channels[channelId] EXCEPT !.isFavorite = Negate(@)])

\* channel.isFavorite = !channel.isFavorite; await tx.store.put(channel)
Toggled(channels, channelId) ==
    Put(channels, channelId, [channels[channelId] EXCEPT !.isFavorite = Negate(@)])

\* savePlaylist(playlist, {replace}), from its call to the end of its
\* transaction
SavePlaylistDone(pid, channels, replace, ok) ==
    /\ tx = TxIdle
    /\ dbChannels' = SavedChannels(dbChannels, NewPlaylist(pid, "m3u", channels),
                                   replace, ok)
    /\ dbPlaylists' = SavedPlaylists(dbPlaylists, NewPlaylist(pid, "m3u", channels), ok)
    /\ call' = [op |-> "savePlaylist", id |-> pid, before |-> "none",
                returned |-> IF ok THEN "undefined" ELSE "threw"]
    /\ UNCHANGED <<txVars, uiVars, imp, ghostVars, mg, hk, ps, xt, lateVars>>

\* saveChannels(playlistId, channels)
SaveChannelsCall(playlistId, items, ok) ==
    /\ tx = TxIdle
    /\ LET written == SaveChannelsChannels(dbChannels, playlistId, items)
       IN  /\ dbChannels' = IF ok THEN CommitResult(dbChannels, written)
                            ELSE AbortResult(dbChannels, written)
           /\ dbPlaylists' =
                  IF ok THEN CommitResult(dbPlaylists,
                                 SaveChannelsPlaylists(dbPlaylists, written, playlistId))
                  ELSE AbortResult(dbPlaylists,
                                 SaveChannelsPlaylists(dbPlaylists, written, playlistId))
    /\ call' = [op |-> "saveChannels", id |-> playlistId, before |-> "none",
                returned |-> IF ok THEN "undefined" ELSE "threw"]
    /\ UNCHANGED <<txVars, uiVars, imp, ghostVars, mg, hk, ps, xt, lateVars>>

\* deletePlaylist(playlistId)
DeletePlaylistCall(playlistId) ==
    /\ tx = TxIdle
    /\ dbPlaylists' = Delete(dbPlaylists, playlistId)
    /\ dbChannels' = CursorDeleteAll(dbChannels, playlistId)
    /\ call' = [op |-> "deletePlaylist", id |-> playlistId, before |-> "none",
                returned |-> "undefined"]
    /\ UNCHANGED <<txVars, uiVars, imp, ghostVars, mg, hk, ps, xt, lateVars>>

\* clearAllData()
ClearAllDataCall ==
    /\ tx = TxIdle
    /\ dbPlaylists' = EmptyStore
    /\ dbChannels' = EmptyStore
    /\ call' = [op |-> "clearAllData", id |-> NULL, before |-> "none",
                returned |-> "undefined"]
    /\ UNCHANGED <<txVars, uiVars, imp, ghostVars, mg, hk, ps, xt, lateVars>>

\* toggleChannelFavorite(channelId): the new flag, or false when there is no
\* such record
ToggleChannelFavoriteCall(channelId) ==
    /\ tx = TxIdle
    /\ dbChannels' = IF channelId \in DOMAIN dbChannels
                     THEN Toggled(dbChannels, channelId) ELSE dbChannels
    /\ call' = [op |-> "toggleChannelFavorite", id |-> channelId,
                before |-> IF channelId \in DOMAIN dbChannels
                           THEN dbChannels[channelId].isFavorite ELSE "none",
                returned |-> IF channelId \in DOMAIN dbChannels
                             THEN Toggled(dbChannels, channelId)[channelId].isFavorite
                             ELSE "false"]
    /\ UNCHANGED <<dbPlaylists, txVars, uiVars, imp, ghostVars, mg, hk, ps, xt, lateVars>>

NextStore ==
    \/ \E pid \in PlaylistIds, channels \in SavedLists, replace, ok \in BOOLEAN :
           SavePlaylistDone(pid, channels, replace, ok)
    \/ \E pid \in PlaylistIds, items \in SavedLists, ok \in BOOLEAN :
           SaveChannelsCall(pid, items, ok)
    \/ \E pid \in PlaylistIds : DeletePlaylistCall(pid)
    \/ ClearAllDataCall
    \/ \E cid \in SavedChannelIds : ToggleChannelFavoriteCall(cid)
-----------------------------------------------------------------------------
(* The favourite merge of an update, on its own: ImportModal.tsx 144-152 *)
(* and 246-256 run the same three statements                             *)

MaxMerge == 2

UrlC == <<"c">>

\* items of the playlist being updated, starred or not
ExistingItems ==
    [name : {NameCNN}, url : {UrlA, UrlB},
     isFavorite : {"undefined", "true", "false"}]

\* items as the parser and the Xtream client return them: no star yet
FreshItems == [name : {NameUp}, url : {UrlA, UrlB, UrlC}, isFavorite : {"undefined"}]

MergeLists(pool) == UNION {[1..n -> pool] : n \in 0..MaxMerge}

MgReady(existing, fresh) ==
    [pc |-> "ready", existing |-> existing, fresh |-> fresh, result |-> <<>>]

\* the merge statements applied to one pair of lists
MergeRun ==
    /\ mg.pc = "ready"
    /\ mg' = [mg EXCEPT !.pc = "done",
                        !.result = MergeFavorites(mg.existing, mg.fresh)]
    /\ UNCHANGED <<appVars, hk, ps, xt, call, lateVars>>

-----------------------------------------------------------------------------
(* The M3U parser: src/src/hooks/useContentCountsFromDB.ts 112-233.       *)
(* A string is the sequence of its characters and the content is the list *)
(* of its lines, as content.split(/\r?\n/) returns it.  An emitted item   *)
(* carries its name, URL, group, content type and series fields.           *)

MaxLines == 4

UpperCase == 
    <<"A", "B", "C", "D", "E", "F", "G", "H", "I", "J", "K", "L", "M", "N",
      "O", "P", "Q", "R", "S", "T", "U", "V", "W", "X", "Y", "Z">>
LowerCase == 
    <<"a", "b", "c", "d", "e", "f", "g", "h", "i", "j", "k", "l", "m", "n",
      "o", "p", "q", "r", "s", "t", "u", "v", "w", "x", "y", "z">>
Letters == Range(UpperCase) \cup Range(LowerCase)
Digits == {"0", "1", "2", "3", "4", "5", "6", "7", "8", "9"}
WhiteSpace == {" ", "\t"}

UpperAccented == <<"É", "Ó", "Ç">>
LowerAccented == <<"é", "ó", "ç">>

\* String.prototype.toLowerCase, one character
LowerChar(c) ==
    IF c \in Range(UpperCase)
    THEN LowerCase[CHOOSE i \in 1..Len(UpperCase) : UpperCase[i] = c]
    ELSE IF c \in Range(UpperAccented)
    THEN LowerAccented[CHOOSE i \in 1..Len(UpperAccented) : UpperAccented[i] = c]
    ELSE c

ToLowerCase(s) == [i \in 1..Len(s) |-> LowerChar(s[i])]

RECURSIVE TrimStart(_)
TrimStart(s) ==
    IF s # <<>> /\ Head(s) \in WhiteSpace THEN TrimStart(Tail(s)) ELSE s

RECURSIVE TrimEnd(_)
TrimEnd(s) ==
    IF s # <<>> /\ s[Len(s)] \in WhiteSpace
    THEN TrimEnd(SubSeq(s, 1, Len(s) - 1))
    ELSE s

\* String.prototype.trim
Trim(s) == TrimEnd(TrimStart(s))

\* String.prototype.startsWith
StartsWith(s, prefix) ==
    Len(s) >= Len(prefix) /\ SubSeq(s, 1, Len(prefix)) = prefix

\* String.prototype.substring(from), from counted from 0
Substring(s, from) == SubSeq(s, from + 1, Len(s))

\* the positions of s at which sub starts
Occurrences(s, sub) ==
    {i \in 1..(Len(s) + 1 - Len(sub)) : SubSeq(s, i, i + Len(sub) - 1) = sub}

\* the least member of a non-empty set of positions
Least(positions) == CHOOSE i \in positions : \A j \in positions : i <= j


-----------------------------------------------------------------------------
(* Content classification and series information: detectContentType and  *)
(* parseSeriesInfo, src/src/hooks/useContentCountsFromDB.ts 45-109         *)

MOVIE_KEYWORDS ==
    <<<<"f", "i", "l", "m", "e">>, <<"f", "i", "l", "m", "e", "s">>, <<"m", "o", "v", "i", "e">>, <<"m", "o", "v", "i", "e", "s">>, <<"v", "o", "d">>, <<"c", "i", "n", "e", "m", "a">>,
      <<"4", "k", " ", "f", "i", "l", "m", "e">>, <<"l", "a", "n", "ç", "a", "m", "e", "n", "t", "o">>, <<"l", "a", "n", "c", "a", "m", "e", "n", "t", "o">>>>
SERIES_KEYWORDS ==
    <<<<"s", "é", "r", "i", "e">>, <<"s", "e", "r", "i", "e", "s">>, <<"s", "é", "r", "i", "e", "s">>, <<"s", "e", "r", "i", "e">>, <<"t", "e", "m", "p", "o", "r", "a", "d", "a">>, <<"e", "p", "i", "s", "o", "d", "i", "o">>,
      <<"e", "p", "i", "s", "ó", "d", "i", "o">>, <<"s", "0">>, <<"e", "0">>, <<"s", "e", "a", "s", "o", "n">>, <<"e", "p", "i", "s", "o", "d", "e">>>>

SerieKey == <<"t", "v", "g", "-", "s", "e", "r", "i", "e">>
SeriesIdKey == <<"t", "v", "g", "-", "s", "e", "r", "i", "e", "s", "-", "i", "d">>
SeasonKey == <<"t", "v", "g", "-", "s", "e", "a", "s", "o", "n">>
EpisodeKey == <<"t", "v", "g", "-", "e", "p", "i", "s", "o", "d", "e">>

\* [\s\-_]
Separators == WhiteSpace \cup {"-", "_"}

\* the character of s at position i, "" past its ends
CharAt(s, i) == IF i \in 1..Len(s) THEN s[i] ELSE ""

\* \d{1,2} at position i: how many digits it takes, 0 when it does not match
DigitRun(s, i) ==
    IF CharAt(s, i) \notin Digits THEN 0
    ELSE IF CharAt(s, i + 1) \in Digits THEN 2 ELSE 1

NoMatch == [ok |-> FALSE, season |-> <<>>, episode |-> <<>>]

\* /s(\d{1,2})[\s\-_]?e(\d{1,2})/i anchored at position i, with its groups
SeasonEpisodeAt(s, i) ==
    LET n1 == DigitRun(s, i + 1)
        p == i + 1 + n1
        e == IF CharAt(s, p) \in Separators THEN p + 1 ELSE p
        n2 == DigitRun(s, e + 1)
    IN  IF /\ CharAt(s, i) \in {"s", "S"}
           /\ n1 > 0
           /\ CharAt(s, e) \in {"e", "E"}
           /\ n2 > 0
        THEN [ok |-> TRUE, season |-> SubSeq(s, i + 1, i + n1),
              episode |-> SubSeq(s, e + 1, e + n2)]
        ELSE NoMatch

\* /(\d{1,2})x(\d{1,2})/i anchored at position i, with its groups
CrossAt(s, i) ==
    LET n1 == DigitRun(s, i)
        x == i + n1
        n2 == DigitRun(s, x + 1)
    IN  IF n1 > 0 /\ CharAt(s, x) \in {"x", "X"} /\ n2 > 0
        THEN [ok |-> TRUE, season |-> SubSeq(s, i, i + n1 - 1),
              episode |-> SubSeq(s, x + 1, x + n2)]
        ELSE NoMatch

\* name.match(/s(\d{1,2})[\s\-_]?e(\d{1,2})/i): the leftmost match
FirstSeasonEpisode(s) ==
    LET starts == {i \in 1..Len(s) : SeasonEpisodeAt(s, i).ok}
    IN  IF starts = {} THEN NoMatch ELSE SeasonEpisodeAt(s, Least(starts))

\* name.match(/(\d{1,2})x(\d{1,2})/i): the leftmost match
FirstCross(s) ==
    LET starts == {i \in 1..Len(s) : CrossAt(s, i).ok}
    IN  IF starts = {} THEN NoMatch ELSE CrossAt(s, Least(starts))

\* the two tests of line 55
HasEpisodePattern(name) == FirstSeasonEpisode(name).ok \/ FirstCross(name).ok

\* the two keyword loops over a lower-cased text: series keywords first
KeywordType(lower) ==
    IF \E k \in 1..Len(SERIES_KEYWORDS) : Occurrences(lower, SERIES_KEYWORDS[k]) # {}
    THEN "series"
    ELSE IF \E k \in 1..Len(MOVIE_KEYWORDS) : Occurrences(lower, MOVIE_KEYWORDS[k]) # {}
    THEN "movie"
    ELSE "none"

\* the URL patterns of lines 68-73
UrlType(lowerUrl) ==
    IF \/ Occurrences(lowerUrl, <<"/", "m", "o", "v", "i", "e", "/">>) # {}
       \/ Occurrences(lowerUrl, <<"/", "v", "o", "d", "/">>) # {}
    THEN "movie"
    ELSE IF Occurrences(lowerUrl, <<"/", "s", "e", "r", "i", "e", "s", "/">>) # {} THEN "series"
    ELSE "none"

\* the rules with the URL patterns consulted before the group keywords
DetectContentTypeUrlFirst(name, group, url) ==
    IF HasEpisodePattern(name) THEN "series"
    ELSE IF UrlType(ToLowerCase(url)) # "none" THEN UrlType(ToLowerCase(url))
    ELSE IF KeywordType(ToLowerCase(group)) # "none"
    THEN KeywordType(ToLowerCase(group))
    ELSE IF KeywordType(ToLowerCase(name)) # "none"
    THEN KeywordType(ToLowerCase(name))
    ELSE "live"

\* detectContentType
DetectContentType(name, group, url) ==
    LET lowerName == ToLowerCase(name)
        lowerGroup == ToLowerCase(group)
        lowerUrl == ToLowerCase(url)
    IN  IF HasEpisodePattern(name) THEN "series"
        ELSE IF KeywordType(lowerGroup) # "none" THEN KeywordType(lowerGroup)
        ELSE IF UrlType(lowerUrl) # "none" THEN UrlType(lowerUrl)
        ELSE IF KeywordType(lowerName) # "none" THEN KeywordType(lowerName)
        ELSE "live"

DigitChars == <<"0", "1", "2", "3", "4", "5", "6", "7", "8", "9">>

\* the value of a string of digits
RECURSIVE DigitsValue(_)
DigitsValue(s) ==
    IF s = <<>> THEN 0
    ELSE 10 * DigitsValue(SubSeq(s, 1, Len(s) - 1))
         + (CHOOSE d \in 0..9 : DigitChars[d + 1] = s[Len(s)])

\* the digits a text starts with
RECURSIVE LeadingDigits(_)
LeadingDigits(s) ==
    IF s = <<>> \/ Head(s) \notin Digits THEN <<>>
    ELSE <<Head(s)>> \o LeadingDigits(Tail(s))

\* the number a sign and a string of digits stand for; <<>> is NaN
SignedValue(negative, digits) ==
    IF digits = <<>> THEN <<>>
    ELSE IF negative THEN <<0 - DigitsValue(digits)>>
    ELSE <<DigitsValue(digits)>>

\* parseInt(s, 10) on a text without leading white space
ParseIntTrimmed(t) ==
    IF t # <<>> /\ t[1] \in {"+", "-"}
    THEN SignedValue(t[1] = "-", LeadingDigits(Tail(t)))
    ELSE SignedValue(FALSE, LeadingDigits(t))

\* parseInt(s, 10): <<n>>, or <<>> for NaN; leading white space and a sign
\* are skipped and the digits that follow are read up to the first other
\* character
ParseInt(s) == ParseIntTrimmed(TrimStart(s))

\* .replace(/[^a-z0-9]+/g, '-'): every run of other characters becomes one '-'
RECURSIVE ReplaceRuns(_)
ReplaceRuns(s) ==
    IF s = <<>> THEN <<>>
    ELSE IF Head(s) \in Range(LowerCase) \cup Digits
    THEN <<Head(s)>> \o ReplaceRuns(Tail(s))
    ELSE IF Len(s) > 1 /\ s[2] \notin Range(LowerCase) \cup Digits
    THEN ReplaceRuns(Tail(s))
    ELSE <<"-">> \o ReplaceRuns(Tail(s))

\* .replace(/^-+|-+$/g, ''), applied to a text whose runs are single
StripDashes(s) ==
    LET from == IF s # <<>> /\ s[1] = "-" THEN 2 ELSE 1
        to == IF Len(s) >= from /\ s[Len(s)] = "-" THEN Len(s) - 1 ELSE Len(s)
    IN  SubSeq(s, from, to)

\* /^(.+?)[\s\-_]*(?:s\d{1,2}[\s\-_]?e\d{1,2}|\d{1,2}x\d{1,2})/i: the
\* shortest non-empty prefix after which separators and a pattern follow;
\* <<>> when there is none
SeriesNameMatch(name) ==
    LET ends == {p \in 1..Len(name) :
                    \E q \in p..Len(name) :
                        /\ \A k \in (p + 1)..q : name[k] \in Separators
                        /\ SeasonEpisodeAt(name, q + 1).ok \/ CrossAt(name, q + 1).ok}
    IN  IF ends = {} THEN <<>> ELSE SubSeq(name, 1, Least(ends))

NoSeriesInfo ==
    [seriesId |-> <<>>, seriesName |-> <<>>, seasonNum |-> <<>>,
     episodeNum |-> <<>>]

\* the object parseSeriesInfo returns for a match and a series name
SeriesInfoOf(match, seriesName) ==
    [seriesId |-> StripDashes(ReplaceRuns(ToLowerCase(seriesName))),
     seriesName |-> seriesName,
     seasonNum |-> ParseInt(match.season),
     episodeNum |-> ParseInt(match.episode)]

\* seriesNameMatch ? seriesNameMatch[1].trim() : name
SeriesNameOf(name, seriesNameMatch) ==
    IF seriesNameMatch # <<>> THEN Trim(seriesNameMatch) ELSE name

\* parseSeriesInfo
ParseSeriesInfo(name) ==
    IF FirstSeasonEpisode(name).ok
    THEN SeriesInfoOf(FirstSeasonEpisode(name),
                      SeriesNameOf(name, SeriesNameMatch(name)))
    ELSE IF FirstCross(name).ok
    THEN SeriesInfoOf(FirstCross(name),
                      SeriesNameOf(name, SeriesNameMatch(name)))
    ELSE NoSeriesInfo
ExtM3U == <<"#", "E", "X", "T", "M", "3", "U">>
ExtInfTag == <<"#", "E", "X", "T", "I", "N", "F", ":">>
ExtVlcOptTag == <<"#", "E", "X", "T", "V", "L", "C", "O", "P", "T", ":">>
ExtGrpTag == <<"#", "E", "X", "T", "G", "R", "P", ":">>
GroupTitleKey == <<"g", "r", "o", "u", "p", "-", "t", "i", "t", "l", "e">>
UnknownChannel ==
    <<"U", "n", "k", "n", "o", "w", "n", " ", "C", "h", "a", "n", "n", "e",
      "l">>
Uncategorized ==
    <<"U", "n", "c", "a", "t", "e", "g", "o", "r", "i", "z", "e", "d">>

\* no protocol: the constructor threw
Throws == <<>>

\* the schemes for which new URL requires a host
HostSchemes ==
    {<<"h", "t", "t", "p">>, <<"h", "t", "t", "p", "s">>, <<"f", "t", "p">>,
     <<"w", "s">>, <<"w", "s", "s">>}

\* the accepted protocols with 'ftp:' among them
AcceptedProtocolsWithFtp ==
    {<<"h", "t", "t", "p", ":">>, <<"h", "t", "t", "p", "s", ":">>,
     <<"r", "t", "m", "p", ":">>, <<"f", "t", "p", ":">>}

\* url.protocol === 'http:' || 'https:' || 'rtmp:'
AcceptedProtocols ==
    {<<"h", "t", "t", "p", ":">>, <<"h", "t", "t", "p", "s", ":">>,
     <<"r", "t", "m", "p", ":">>}

\* line.match(/key="([^"]*)"/i): the value of the leftmost key=" that has a
\* closing quote; <<>> stands for both no match and the empty value, which
\* the caller's || treats alike
AttrMatch(line, key) ==
    LET opening == key \o <<"=", "\"">>
        starts == {i \in Occurrences(ToLowerCase(line), opening) :
                      \E j \in (i + Len(opening))..Len(line) : line[j] = "\""}
    IN  IF starts = {} THEN <<>>
        ELSE LET from == Least(starts) + Len(opening)
                 to == Least({j \in from..Len(line) : line[j] = "\""})
             IN  SubSeq(line, from, to - 1)

\* line.match(/,([^,]+)$/): what follows the last comma, when something does
NameMatch(line) ==
    LET commas == {i \in 1..Len(line) : line[i] = ","}
    IN  IF commas = {} THEN <<>>
        ELSE LET last == CHOOSE i \in commas : \A j \in commas : j <= i
             IN  Trim(SubSeq(line, last + 1, Len(line)))

\* line.match(/key="([^"]*)"/i) is not null
HasAttr(line, key) ==
    \E i \in Occurrences(ToLowerCase(line), key \o <<"=", "\"">>) :
        \E j \in (i + Len(key) + 2)..Len(line) : line[j] = "\""

NoChannel ==
    [set |-> FALSE, name |-> <<>>, group |-> <<>>, seriesId |-> <<>>,
     seasonNum |-> <<>>, episodeNum |-> <<>>, threw |-> FALSE]

\* parseExtInf: only regular-expression matches and assignments, so it
\* returns a channel for every line
ParseExtInf(line) ==
    [set |-> TRUE,
     name |-> NameMatch(line),
     group |-> AttrMatch(line, GroupTitleKey),
     seriesId |-> IF HasAttr(line, SeriesIdKey) THEN AttrMatch(line, SeriesIdKey)
                  ELSE AttrMatch(line, SerieKey),
     seasonNum |-> ParseInt(AttrMatch(line, SeasonKey)),
     episodeNum |-> ParseInt(AttrMatch(line, EpisodeKey)),
     threw |-> FALSE]

\* new URL(str).protocol, or Throws when the constructor rejects str: no
\* scheme, or an http-like scheme without a host
UrlProtocol(str) ==
    LET colons == {i \in 1..Len(str) : str[i] = ":"}
        end == IF colons = {} THEN 0 ELSE Least(colons)
        scheme == ToLowerCase(SubSeq(str, 1, end - 1))
        rest == SubSeq(str, end + 1, Len(str))
        hostAt == {i \in 1..Len(rest) : rest[i] \notin {"/", "\\"}}
    IN  IF \/ end < 2
           \/ str[1] \notin Letters
           \/ \E i \in 2..(end - 1) : str[i] \notin Letters \cup Digits \cup {"+", "-", "."}
        THEN Throws
        ELSE IF scheme \in HostSchemes
                  /\ (hostAt = {} \/ rest[Least(hostAt)] \in {"?", "#"})
        THEN Throws
        ELSE scheme \o <<":">>

\* isValidUrl with no try around new URL(str)
IsValidUrlUncaught(str) ==
    LET protocol == UrlProtocol(str)
    IN  IF protocol = Throws THEN "threw"
        ELSE IF protocol \in AcceptedProtocols THEN "true" ELSE "false"

\* isValidUrl: "true" or "false"; the catch turns a rejected string into
\* "false"
IsValidUrl(str) ==
    LET protocol == UrlProtocol(str)
    IN  IF protocol = Throws THEN "false"
        ELSE IF protocol \in AcceptedProtocols THEN "true" ELSE "false"

Or(value, default) == IF value = <<>> THEN default ELSE value

\* a || b on optional numbers: 0 is as falsy as undefined
OrNumber(value, default) ==
    IF value = <<>> \/ value = <<0>> THEN default ELSE value

\* the object parseM3U pushes
ItemOf(current, name, url, group, contentType, seriesInfo) ==
    [name |-> name, url |-> url, group |-> group,
     contentType |-> contentType,
     seriesId |-> Or(current.seriesId, seriesInfo.seriesId),
     seriesName |-> seriesInfo.seriesName,
     seasonNum |-> OrNumber(current.seasonNum, seriesInfo.seasonNum),
     episodeNum |-> OrNumber(current.episodeNum, seriesInfo.episodeNum)]

\* contentType === 'series' ? parseSeriesInfo(name) : {}
SeriesInfoFor(contentType, name) ==
    IF contentType = "series" THEN ParseSeriesInfo(name) ELSE NoSeriesInfo

\* the item of a pending entry and a URL, lines 141-160
ClassifiedItem(current, name, url, group, contentType) ==
    ItemOf(current, name, url, group, contentType,
           SeriesInfoFor(contentType, name))

EmittedItem(current, url) ==
    ClassifiedItem(current, Or(current.name, UnknownChannel), url,
                   Or(current.group, Uncategorized),
                   DetectContentType(Or(current.name, UnknownChannel),
                                     Or(current.group, Uncategorized), url))

ParseStart == [channels |-> <<>>, errors |-> <<>>, current |-> NoChannel,
               threw |-> FALSE]

\* the body of the loop of parseM3U for one line; an exception that nothing
\* in the loop catches ends the call (threw)
ParseLine(st, line, lineNumber) ==
    LET trimmed == Trim(line)
    IN  IF st.threw THEN st
        ELSE IF trimmed = <<>> \/ trimmed = ExtM3U THEN st
        ELSE IF StartsWith(trimmed, ExtInfTag) THEN
            LET parsed == ParseExtInf(trimmed)
            IN  IF parsed.threw
                THEN [st EXCEPT !.errors = Append(@, lineNumber),
                                !.current = NoChannel]
                ELSE [st EXCEPT !.current = parsed]
        ELSE IF StartsWith(trimmed, ExtVlcOptTag) \/ StartsWith(trimmed, ExtGrpTag) THEN
            IF st.current.set /\ StartsWith(trimmed, ExtGrpTag)
            THEN [st EXCEPT !.current.group = Trim(Substring(trimmed, 8))]
            ELSE st
        ELSE IF ~StartsWith(trimmed, <<"#">>) THEN
            LET valid == IF st.current.set THEN IsValidUrl(trimmed) ELSE "false"
            IN  IF valid = "threw" THEN [st EXCEPT !.threw = TRUE]
                ELSE IF valid = "true"
                THEN [st EXCEPT
                        !.channels = Append(@, EmittedItem(st.current, trimmed)),
                        !.current = NoChannel]
                ELSE [st EXCEPT !.current = NoChannel]
        ELSE st

RECURSIVE ParseFrom(_, _, _)
ParseFrom(st, lines, lineNumber) ==
    IF lineNumber > Len(lines) THEN st
    ELSE ParseFrom(ParseLine(st, lines[lineNumber], lineNumber), lines,
                   lineNumber + 1)

\* parseM3U: {channels, errors}, or threw
ParseResult(st) ==
    [channels |-> st.channels, errors |-> st.errors, threw |-> st.threw]

ParseM3U(lines) == ParseResult(ParseFrom(ParseStart, lines, 1))

\* the lines a content is made of
LHeader == <<"#", "E", "X", "T", "M", "3", "U">>
LInf ==
    <<"#", "E", "X", "T", "I", "N", "F", ":", "-", "1", " ", "g", "r", "o",
      "u", "p", "-", "t", "i", "t", "l", "e", "=", "\"", "N", "\"", ",",
      "A">>
LInfNoName == <<"#", "E", "X", "T", "I", "N", "F", ":", "-", "1", ",">>
LGrp == <<"#", "E", "X", "T", "G", "R", "P", ":", "G">>
LComment == <<"#", "c">>
LBlank == <<" ">>
LUrl == <<"h", "t", "t", "p", ":", "/", "/", "h", "/", "a">>
LUrlPadded == <<" ", "r", "t", "m", "p", ":", "/", "/", "h", "/", "b", " ">>
LFtp == <<"f", "t", "p", ":", "/", "/", "h", "/", "a">>
LNoScheme == <<"h", "/", "a">>

LinePool == {LHeader, LInf, LInfNoName, LGrp, LComment, LBlank,
             LUrl, LUrlPadded, LFtp, LNoScheme}

Contents == UNION {[1..n -> LinePool] : n \in 0..MaxLines}

PsReady(lines) ==
    [pc |-> "ready", lines |-> lines, channels |-> <<>>, errors |-> <<>>,
     threw |-> FALSE]

PsDone(lines, r) ==
    [pc |-> "done", lines |-> lines, channels |-> r.channels,
     errors |-> r.errors, threw |-> r.threw]

\* one call of parseM3U
ParseRun ==
    /\ ps.pc = "ready"
    /\ ps' = PsDone(ps.lines, ParseM3U(ps.lines))
    /\ UNCHANGED <<appVars, mg, hk, xt, call, lateVars>>


\* the names, groups and URLs detectContentType is applied to
NPlain == <<"A">>
NEpisode == <<"A", " ", "S", "0", "1", "E", "0", "2">>
NEpisodeDash == <<"a", " ", "s", "1", "-", "e", "2">>
NCross == <<"A", " ", "1", "x", "0", "2">>
NSeriesWord == <<"S", "é", "r", "i", "e", " ", "A">>
NMovieWord == <<"F", "i", "l", "m", "e", " ", "A">>
NBothWords == <<"M", "o", "v", "i", "e", "s", "0">>
NTrailingS == <<"A", "s", "1">>
GPlain == <<"N">>
GSeries == <<"S", "É", "R", "I", "E", "S">>
GMovie == <<"L", "a", "n", "ç", "a", "m", "e", "n", "t", "o", "s">>
GBoth == <<"F", "i", "l", "m", "e", "s", " ", "e", " ", "S", "e", "r",
      "i", "e", "s">>
GVod == <<"V", "O", "D">>
UPlain == <<"h", "t", "t", "p", ":", "/", "/", "h", "/", "a">>
UMovie == <<"h", "t", "t", "p", ":", "/", "/", "h", "/", "m", "o", "v",
      "i", "e", "/", "1">>
UVod == <<"h", "t", "t", "p", ":", "/", "/", "h", "/", "V", "O", "D",
      "/", "1">>
USeries == <<"h", "t", "t", "p", ":", "/", "/", "h", "/", "S", "e", "r",
      "i", "e", "s", "/", "1">>
UBoth == <<"h", "t", "t", "p", ":", "/", "/", "h", "/", "s", "e", "r",
      "i", "e", "s", "/", "v", "o", "d", "/", "1">>

DetectNames ==
    {NPlain, NEpisode, NEpisodeDash, NCross, NSeriesWord, NMovieWord,
     NBothWords, NTrailingS}
DetectGroups == {GPlain, GSeries, GMovie, GBoth, GVod}
DetectUrls == {UPlain, UMovie, UVod, USeries, UBoth}

DetectReady(name, group, url) ==
    [pc |-> "classify", name |-> name, group |-> group, url |-> url,
     contentType |-> "undefined"]

\* one call of detectContentType
DetectRun ==
    /\ ps.pc = "classify"
    /\ ps' = [ps EXCEPT !.pc = "classified",
                        !.contentType = DetectContentType(ps.name, ps.group, ps.url)]
    /\ UNCHANGED <<appVars, mg, hk, xt, call, lateVars>>

\* the metadata lines with series tags: #EXTINF:-1, the tags, a comma and
\* the name; an absent tag is the empty text
TSeriesId7 == <<" ", "t", "v", "g", "-", "s", "e", "r", "i", "e", "s", "-",
      "i", "d", "=", "\"", "7", "\"">>
TSerieSh == <<" ", "t", "v", "g", "-", "s", "e", "r", "i", "e", "=", "\"",
      "S", "h", "\"">>
TSeason0 == <<" ", "t", "v", "g", "-", "s", "e", "a", "s", "o", "n", "=",
      "\"", "0", "\"">>
TSeason3 == <<" ", "t", "v", "g", "-", "s", "e", "a", "s", "o", "n", "=",
      "\"", "3", "\"">>
TSeasonX == <<" ", "t", "v", "g", "-", "s", "e", "a", "s", "o", "n", "=",
      "\"", "x", "\"">>
TEpisode0 == <<" ", "t", "v", "g", "-", "e", "p", "i", "s", "o", "d", "e",
      "=", "\"", "0", "\"">>
TEpisode4 == <<" ", "t", "v", "g", "-", "e", "p", "i", "s", "o", "d", "e",
      "=", "\"", "4", "\"">>
NTaggedEpisode == <<"A", " ", "S", "0", "2", "E", "0", "5">>
NTaggedSeries == <<"S", "é", "r", "i", "e", " ", "B">>
NTaggedPlain == <<"A">>

TagSeriesId == {<<>>, TSeriesId7}
TagSerie == {<<>>, TSerieSh}
TagSeason == {<<>>, TSeason0, TSeason3, TSeasonX}
TagEpisode == {<<>>, TEpisode0, TEpisode4}
TaggedNames == {NTaggedEpisode, NTaggedSeries, NTaggedPlain}

InfLine(seriesId, serie, season, episode, name) ==
    <<"#", "E", "X", "T", "I", "N", "F", ":", "-", "1">> \o seriesId \o serie \o season \o episode \o <<",">> \o name

SeriesContents ==
    {<<InfLine(seriesId, serie, season, episode, name), LUrl>> :
        seriesId \in TagSeriesId, serie \in TagSerie, season \in TagSeason,
        episode \in TagEpisode, name \in TaggedNames}

-----------------------------------------------------------------------------
(* The Xtream client: fetchXtreamChannels and fetchXtreamSeriesEpisodes,   *)
(* src/src/hooks/useContentCountsFromDB.ts 313-558.  A request is issued   *)
(* when fetchFromXtreamProxy is called and completes in a later step; the  *)
(* two requests of a Promise.all are in flight together and complete in    *)
(* either order.                                                            *)

MaxStreams == 1

BaseUrl == <<"h", "t", "t", "p", ":", "/", "/", "x">>
Username == <<"u">>
Password == <<"p">>
STREAM_PROXY_URL == <<"/", "a", "p", "i", "/", "p", "r", "o", "x", "y", "/", "s",
      "t", "r", "e", "a", "m">>

AuthFailedMessage == <<"A", "u", "t", "h", "e", "n", "t", "i", "c", "a", "t", "i",
      "o", "n", " ", "f", "a", "i", "l", "e", "d", ":", " ", "I",
      "n", "v", "a", "l", "i", "d", " ", "u", "s", "e", "r", "n",
      "a", "m", "e", " ", "o", "r", " ", "p", "a", "s", "s", "w",
      "o", "r", "d">>
ExpiredMessage == <<"A", "c", "c", "o", "u", "n", "t", " ", "e", "x", "p", "i",
      "r", "e", "d", ".", " ", "P", "l", "e", "a", "s", "e", " ",
      "r", "e", "n", "e", "w", " ", "y", "o", "u", "r", " ", "s",
      "u", "b", "s", "c", "r", "i", "p", "t", "i", "o", "n", ".">>
BannedMessage == <<"A", "c", "c", "o", "u", "n", "t", " ", "h", "a", "s", " ",
      "b", "e", "e", "n", " ", "b", "a", "n", "n", "e", "d", ".">>
DisabledMessage == <<"A", "c", "c", "o", "u", "n", "t", " ", "i", "s", " ", "d",
      "i", "s", "a", "b", "l", "e", "d", ".">>
StorageFullMessage ==
    <<"B", "r", "o", "w", "s", "e", "r", " ", "s", "t", "o", "r",
      "a", "g", "e", " ", "i", "s", " ", "f", "u", "l", "l", ".",
      " ", "T", "r", "y", " ", "c", "l", "e", "a", "r", "i", "n",
      "g", " ", "s", "i", "t", "e", " ", "d", "a", "t", "a", " ",
      "o", "r", " ", "u", "s", "i", "n", "g", " ", "a", " ", "d",
      "i", "f", "f", "e", "r", "e", "n", "t", " ", "b", "r", "o",
      "w", "s", "e", "r", ".">>
NoChannelsMessage ==
    <<"N", "o", " ", "c", "h", "a", "n", "n", "e", "l", "s", " ",
      "f", "o", "u", "n", "d", ".", " ", "T", "h", "e", " ", "a",
      "c", "c", "o", "u", "n", "t", " ", "m", "a", "y", " ", "h",
      "a", "v", "e", " ", "n", "o", " ", "a", "c", "t", "i", "v",
      "e", " ", "s", "u", "b", "s", "c", "r", "i", "p", "t", "i",
      "o", "n", "s", ".">>
ServerReturnedMessage == <<"S", "e", "r", "v", "e", "r", " ", "r", "e", "t", "u", "r",
      "n", "e", "d", " ", "5", "0", "0">>

\* String(n)
RECURSIVE NumberText(_)
NumberText(n) ==
    IF n < 10 THEN <<DigitChars[n + 1]>>
    ELSE NumberText(n \div 10) \o <<DigitChars[(n % 10) + 1]>>

MaxConnectionsMessage(active, max) ==
    <<"M", "a", "x", " ", "c", "o", "n", "n", "e", "c", "t", "i",
      "o", "n", "s", " ", "r", "e", "a", "c", "h", "e", "d", " ",
      "(">> \o NumberText(active) \o <<"/">>
    \o NumberText(max) \o <<")", ".", " ", "C", "l", "o", "s", "e", " ", "o", "t", "h",
      "e", "r", " ", "s", "t", "r", "e", "a", "m", "s", " ", "a",
      "n", "d", " ", "t", "r", "y", " ", "a", "g", "a", "i", "n",
      ".">>

\* encodeURIComponent on the characters of a stream URL
EncodeChar(c) ==
    IF c = ":" THEN <<"%", "3", "A">>
    ELSE IF c = "/" THEN <<"%", "2", "F">>
    ELSE <<c>>

RECURSIVE EncodeURIComponent(_)
EncodeURIComponent(s) ==
    IF s = <<>> THEN <<>>
    ELSE EncodeChar(Head(s)) \o EncodeURIComponent(Tail(s))

\* createStreamUrl
CreateStreamUrl(originalUrl) ==
    STREAM_PROXY_URL \o <<"?", "u", "r", "l", "=">> \o EncodeURIComponent(originalUrl)

\* `${baseUrl}/${family}/${username}/${password}/${id}.${ext}`
OriginalUrl(path, id, ext) ==
    BaseUrl \o <<"/">> \o path \o <<"/">> \o Username \o <<"/">> \o Password
    \o <<"/">> \o NumberText(id) \o <<".">> \o ext

\* the checks of the authentication response, in their order: the message
\* of the error thrown, <<>> when none is
CheckAuth(authData) ==
    LET userInfo == authData.user_info
    IN  IF userInfo.present /\ userInfo.auth = 0 THEN AuthFailedMessage
        ELSE IF userInfo.present /\ userInfo.status = "Expired" THEN ExpiredMessage
        ELSE IF userInfo.present /\ userInfo.status = "Banned" THEN BannedMessage
        ELSE IF userInfo.present /\ userInfo.status = "Disabled" THEN DisabledMessage
        ELSE IF /\ userInfo.present
                /\ userInfo.max_connections # 0
                /\ userInfo.active_cons >= userInfo.max_connections
        THEN MaxConnectionsMessage(userInfo.active_cons, userInfo.max_connections)
        ELSE Or(authData.error, authData.message)

\* the catch block: the message of the error fetchXtreamChannels throws for
\* an Error thrown in its try block
Rethrown(message) ==
    IF Occurrences(message, <<"q", "u", "o", "t", "a">>) # {} THEN StorageFullMessage ELSE message

\* new Map(categories.map(...)).get(id) || fallback: the name of the last
\* category with that id
CategoryName(categories, id, fallback) ==
    LET named == {i \in 1..Len(categories) : categories[i].category_id = id}
    IN  IF named = {} THEN fallback
        ELSE Or(categories[CHOOSE i \in named : \A j \in named : j <= i].category_name,
                fallback)

NoSeries ==
    [seriesId |-> <<>>, seriesName |-> <<>>, seasonNum |-> <<>>,
     episodeNum |-> <<>>]

LiveChannel(stream, categories) ==
    [name |-> stream.name,
     url |-> CreateStreamUrl(OriginalUrl(<<"l", "i", "v", "e">>, stream.stream_id, <<"m", "3", "u", "8">>)),
     group |-> CategoryName(categories, stream.category_id, <<"L", "i", "v", "e", " ", "T", "V">>),
     contentType |-> "live"] @@ NoSeries

MovieChannel(vod, categories) ==
    [name |-> vod.name,
     url |-> CreateStreamUrl(OriginalUrl(<<"m", "o", "v", "i", "e">>, vod.stream_id,
                                         Or(vod.container_extension, <<"m", "p", "4">>))),
     group |-> CategoryName(categories, vod.category_id, <<"M", "o", "v", "i", "e", "s">>),
     contentType |-> "movie"] @@ NoSeries

SeriesPlaceholder(series, categories) ==
    [name |-> series.name,
     url |-> <<>>,
     group |-> CategoryName(categories, series.category_id, <<"S", "e", "r", "i", "e", "s">>),
     contentType |-> "series",
     seriesId |-> NumberText(series.series_id),
     seriesName |-> <<>>, seasonNum |-> <<>>, episodeNum |-> <<>>]

\* the three families in the order they are fetched, each with the actions
\* of its two requests
CategoriesAction(family) ==
    IF family = "live" THEN "get_live_categories"
    ELSE IF family = "vod" THEN "get_vod_categories"
    ELSE "get_series_categories"
StreamsAction(family) ==
    IF family = "live" THEN "get_live_streams"
    ELSE IF family = "vod" THEN "get_vod_streams"
    ELSE "get_series"

\* the channels one family adds: forEach over the streams of the response
FamilyChannels(family, streams, categories) ==
    [i \in 1..Len(streams) |->
        IF family = "live" THEN LiveChannel(streams[i], categories)
        ELSE IF family = "vod" THEN MovieChannel(streams[i], categories)
        ELSE SeriesPlaceholder(streams[i], categories)]

\* the order of the families with the series before the movies
FamilyAfterSeriesFirst(family) ==
    IF family = "live" THEN "series" ELSE IF family = "series" THEN "vod" ELSE "none"

\* the family fetched after this one, "none" after the last
FamilyAfter(family) ==
    IF family = "live" THEN "vod" ELSE IF family = "vod" THEN "series" ELSE "none"

\* the run has thrown: nothing further is issued
XtFailed(x, message) == [x EXCEPT !.pc = "failed", !.error = Rethrown(message)]

\* the two requests of a family are issued together
XtIssue(x, family) ==
    [x EXCEPT !.pc = "fetch", !.family = family,
              !.pending = {CategoriesAction(family), StreamsAction(family)},
              !.requests = @ \o <<CategoriesAction(family), StreamsAction(family)>>]

\* after the last family: the length check and the return
XtReturn(x) ==
    IF x.channels = <<>> THEN [x EXCEPT !.pc = "failed", !.error = NoChannelsMessage]
    ELSE [x EXCEPT !.pc = "done", !.result = x.channels]

\* both requests of a family have completed: its channels are appended and
\* the next family is fetched
XtAppend(x) ==
    LET added == [x EXCEPT !.channels =
                      @ \o FamilyChannels(x.family, x.server[x.family],
                                          x.server.categories)]
    IN  IF FamilyAfter(x.family) = "none" THEN XtReturn(added)
        ELSE XtIssue(added, FamilyAfter(x.family))

XtReady(server) ==
    [pc |-> "ready", server |-> server, requests |-> <<>>, completed |-> <<>>,
     pending |-> {}, family |-> "none", channels |-> <<>>, result |-> <<>>,
     error |-> <<>>, episodes |-> <<>>]

\* fetchXtreamChannels is called: the authentication request is issued
XtStart ==
    /\ xt.pc = "ready"
    /\ xt' = [xt EXCEPT !.pc = "auth", !.requests = <<"auth">>]
    /\ UNCHANGED <<appVars, mg, hk, ps, call, lateVars>>

\* the authentication request completes: with a response that is not ok
\* fetchFromXtreamProxy throws, otherwise the response is checked and the
\* live requests are issued
XtAuthDone(ok) ==
    /\ xt.pc = "auth"
    /\ xt' = IF ~ok THEN XtFailed(xt, ServerReturnedMessage)
             ELSE IF CheckAuth(xt.server.auth) # <<>>
             THEN XtFailed([xt EXCEPT !.completed = <<"auth">>],
                           CheckAuth(xt.server.auth))
             ELSE XtIssue([xt EXCEPT !.completed = <<"auth">>], "live")
    /\ UNCHANGED <<appVars, mg, hk, ps, call, lateVars>>

\* one request of the pair in flight completes
XtComplete(action, ok) ==
    /\ xt.pc = "fetch"
    /\ action \in xt.pending
    /\ xt' = IF ~ok THEN XtFailed(xt, ServerReturnedMessage)
             ELSE IF xt.pending = {action}
             THEN XtAppend([xt EXCEPT !.pending = {},
                                      !.completed = Append(@, action)])
             ELSE [xt EXCEPT !.pending = @ \ {action},
                             !.completed = Append(@, action)]
    /\ UNCHANGED <<appVars, mg, hk, ps, call, lateVars>>

\* the episode fetchXtreamSeriesEpisodes pushes for one entry of a season
EpisodeChannel(seriesId, seriesName, seasonKey, ep) ==
    [name |-> IF ep.title # <<>> /\ ep.title # seriesName THEN ep.title
              ELSE seriesName,
     url |-> CreateStreamUrl(OriginalUrl(<<"s", "e", "r", "i", "e", "s">>, ep.id,
                                         Or(ep.container_extension, <<"m", "p", "4">>))),
     group |-> seriesName \o <<" ", "-", " ", "S", "e", "a", "s", "o", "n", " ">>
               \o NumberText(OrNumber(ep.season, ParseInt(seasonKey))[1]),
     contentType |-> "series",
     seriesId |-> seriesId,
     seriesName |-> <<>>,
     seasonNum |-> OrNumber(ep.season, ParseInt(seasonKey)),
     episodeNum |-> OrNumber(ep.episode_num, <<0>>)]

\* the loops of fetchXtreamSeriesEpisodes over the seasons and their entries
RECURSIVE SeasonEpisodes(_, _, _)
SeasonEpisodes(seriesId, seriesName, seasons) ==
    IF seasons = <<>> THEN <<>>
    ELSE [i \in 1..Len(Head(seasons).episodes) |->
             EpisodeChannel(seriesId, seriesName, Head(seasons).key,
                            Head(seasons).episodes[i])]
         \o SeasonEpisodes(seriesId, seriesName, Tail(seasons))

\* fetchXtreamSeriesEpisodes for a placeholder of the returned list, whose
\* get_series_info request completes at once
XtFetchEpisodes(i, ok) ==
    /\ xt.pc = "done"
    /\ i \in 1..Len(xt.result)
    /\ xt.result[i].contentType = "series"
    /\ xt' = IF ~ok THEN [xt EXCEPT !.pc = "episodesFailed",
                                    !.error = ServerReturnedMessage,
                                    !.requests = Append(@, "get_series_info")]
             ELSE [xt EXCEPT !.pc = "episodes",
                             !.requests = Append(@, "get_series_info"),
                             !.episodes = SeasonEpisodes(xt.result[i].seriesId,
                                              xt.result[i].name,
                                              xt.server.seasons)]
    /\ UNCHANGED <<appVars, mg, hk, ps, call, lateVars>>

NextXtream ==
    \/ XtStart
    \/ \E ok \in BOOLEAN : XtAuthDone(ok)
    \/ \E action \in xt.pending, ok \in BOOLEAN : XtComplete(action, ok)
    \/ \E i \in 1..MaxStreams * 3, ok \in BOOLEAN : XtFetchEpisodes(i, ok)

\* what the server answers
UserInfo(auth, status, max, active) ==
    [present |-> TRUE, auth |-> auth, status |-> status,
     max_connections |-> max, active_cons |-> active]
NoUserInfo ==
    [present |-> FALSE, auth |-> 1, status |-> "Active", max_connections |-> 0,
     active_cons |-> 0]
AuthData(userInfo, error, message) ==
    [user_info |-> userInfo, error |-> error, message |-> message]

ErrorText == <<"b", "a", "d">>
MessageText == <<"B", "a", "n", "d", "w", "i", "d", "t", "h", " ", "q", "u",
      "o", "t", "a", " ", "e", "x", "c", "e", "e", "d", "e", "d">>
PlainMessageText == <<"n", "o">>

AuthResponses ==
    {AuthData(UserInfo(1, "Active", 2, 1), <<>>, <<>>),
     AuthData(UserInfo(1, "Active", 0, 0), <<>>, <<>>),
     AuthData(NoUserInfo, <<>>, <<>>),
     AuthData(UserInfo(0, "Active", 2, 1), <<>>, <<>>),
     AuthData(UserInfo(0, "Expired", 1, 1), ErrorText, <<>>),
     AuthData(UserInfo(1, "Expired", 2, 1), <<>>, <<>>),
     AuthData(UserInfo(1, "Banned", 2, 1), <<>>, <<>>),
     AuthData(UserInfo(1, "Disabled", 2, 1), <<>>, <<>>),
     AuthData(UserInfo(1, "Active", 1, 1), <<>>, <<>>),
     AuthData(UserInfo(1, "Active", 1, 2), <<>>, <<>>),
     AuthData(UserInfo(1, "Active", 2, 1), ErrorText, <<>>),
     AuthData(NoUserInfo, ErrorText, MessageText),
     AuthData(NoUserInfo, <<>>, MessageText),
     AuthData(NoUserInfo, <<>>, PlainMessageText)}

Category == [category_id |-> "1", category_name |-> <<"K">>]
Stream(id, name, category) ==
    [stream_id |-> id, series_id |-> id, name |-> name,
     category_id |-> category, container_extension |-> <<>>]
StreamPool == {Stream(1, <<"A">>, "1"), Stream(2, <<"B">>, "2")}
StreamLists == UNION {[1..n -> StreamPool] : n \in 0..MaxStreams}

Episode(id, title, season, number) ==
    [id |-> id, title |-> title, season |-> season, episode_num |-> number,
     container_extension |-> <<>>]
SeasonLists ==
    {<<>>,
     <<[key |-> <<"1">>, episodes |-> <<Episode(7, <<"E">>, <<>>, <<1>>),
                                     Episode(8, <<>>, <<2>>, <<>>)>>]>>}

Servers ==
    [auth : AuthResponses, live : StreamLists, vod : StreamLists,
     series : StreamLists, categories : {<<Category>>}, seasons : SeasonLists]
-----------------------------------------------------------------------------
(* The paginated channel list: useChannelsFromDB (the hook listed in       *)
(* cloudflare-worker/README.md 38-258) over getChannels (lib/db.ts         *)
(* 131-178).  A step runs from an event (a store update, a scroll, a store *)
(* read resolving) through the renders and effects it causes, up to the    *)
(* next await.  The store read of loadMore is taken to resolve.            *)

\* the pageSize option of the hook
PageSize == 2

\* limit: 50000
LoadLimit == 50000

Favorites == <<"f", "a", "v", "o", "r", "i", "t", "e", "s">>
AllGroups == <<"a", "l", "l">>

\* String.prototype.includes
Includes(s, sub) == Occurrences(s, sub) # {}

\* getChannels: the records of the playlist (of one content type), in the
\* order of the index, filtered and sliced
GetChannels(channels, o) ==
    LET keys == IF o.contentType \notin {"undefined", "all"}
                THEN {k \in ByPlaylist(channels, o.playlistId) :
                         channels[k].contentType = o.contentType}
                ELSE ByPlaylist(channels, o.playlistId)
        ordered == InKeyOrder(ChannelKeyOrder, keys)
        allChannels == [i \in 1..Len(ordered) |-> channels[ordered[i]]]
        byGroup == IF o.group # <<>> /\ o.group # AllGroups
                   THEN SelectSeq(allChannels, LAMBDA c : c.group = o.group)
                   ELSE allChannels
        byFavorite == IF o.isFavorite # "undefined"
                      THEN SelectSeq(byGroup, LAMBDA c : c.isFavorite = o.isFavorite)
                      ELSE byGroup
        bySearch == IF o.searchQuery # <<>>
                    THEN SelectSeq(byFavorite, LAMBDA c :
                             Includes(ToLowerCase(c.name), ToLowerCase(o.searchQuery)))
                    ELSE byFavorite
    IN  Slice(bySearch, o.offset, o.offset + o.limit)

\* the order localeCompare(.., 'pt-BR', {sensitivity: 'base'}) gives the
\* characters of the names: blank, digits, letters, case ignored
CollationOrder ==
    <<" ", "0", "1", "2", "3", "4", "5", "6", "7", "8", "9">> \o LowerCase

Weight(c) == KeyRank(CollationOrder, LowerChar(c))

\* a.localeCompare(b, 'pt-BR', {sensitivity: 'base'}) <= 0
RECURSIVE LocaleLeq(_, _)
LocaleLeq(a, b) ==
    IF a = <<>> THEN TRUE
    ELSE IF b = <<>> THEN FALSE
    ELSE IF Weight(Head(a)) # Weight(Head(b)) THEN Weight(Head(a)) < Weight(Head(b))
    ELSE LocaleLeq(Tail(a), Tail(b))

\* x placed behind the last element of the sorted list that is not after it
RECURSIVE InsertByName(_, _)
InsertByName(sorted, x) ==
    IF sorted = <<>> THEN <<x>>
    ELSE IF LocaleLeq(Head(sorted).name, x.name)
         THEN <<Head(sorted)>> \o InsertByName(Tail(sorted), x)
         ELSE <<x>> \o sorted

\* sortAlphabetically: Array.prototype.sort is stable
RECURSIVE SortAlphabetically(_)
SortAlphabetically(channels) ==
    IF channels = <<>> THEN <<>>
    ELSE CHOOSE result \in
             {InsertByName(sorted, x) :
                 sorted \in {SortAlphabetically(SubSeq(channels, 1, Len(channels) - 1))},
                 x \in {channels[Len(channels)]}} : TRUE

\* /\s*S\d+E\d+/i matches name from position i on
EpisodeTagAt(name, i) ==
    \E s \in i..Len(name) :
        /\ \A k \in i..(s - 1) : name[k] \in WhiteSpace
        /\ name[s] \in {"S", "s"}
        /\ \E e \in (s + 2)..(Len(name) - 1) :
              /\ \A k \in (s + 1)..(e - 1) : name[k] \in Digits
              /\ name[e] \in {"E", "e"}
              /\ name[e + 1] \in Digits

\* name.replace(/\s*S\d+E\d+.*$/i, ''): the name up to the leftmost match
StripEpisode(name) ==
    LET starts == {i \in 1..Len(name) : EpisodeTagAt(name, i)}
    IN  IF starts = {} THEN name ELSE SubSeq(name, 1, Least(starts) - 1)

\* a key that prefers the series name to the series id
SeriesKeyNameFirst(c) == Or(Or(c.seriesName, c.seriesId), c.name)

\* channel.seriesId || channel.seriesName || channel.name
SeriesKey(c) == Or(Or(c.seriesId, c.seriesName), c.name)

\* a loop that replaces the display name and leaves the series fields
RECURSIVE SeriesMapNameOnly(_, _)
SeriesMapNameOnly(episodes, seen) ==
    IF episodes = <<>> THEN <<>>
    ELSE LET c == Head(episodes)
             seriesName == Or(c.seriesName, Trim(StripEpisode(c.name)))
         IN  IF SeriesKey(c) \in seen THEN SeriesMapNameOnly(Tail(episodes), seen)
             ELSE <<[c EXCEPT !.name = seriesName]>>
                  \o SeriesMapNameOnly(Tail(episodes), seen \cup {SeriesKey(c)})

\* the loop of groupSeriesEpisodes: the first episode of every key stands
\* for the series
RECURSIVE SeriesMap(_, _)
SeriesMap(episodes, seen) ==
    IF episodes = <<>> THEN <<>>
    ELSE LET c == Head(episodes)
             seriesName == Or(c.seriesName, Trim(StripEpisode(c.name)))
         IN  IF SeriesKey(c) \in seen THEN SeriesMap(Tail(episodes), seen)
             ELSE <<[c EXCEPT !.name = seriesName, !.seriesId = SeriesKey(c),
                              !.seriesName = seriesName]>>
                  \o SeriesMap(Tail(episodes), seen \cup {SeriesKey(c)})

GroupSeriesEpisodes(episodes) == SortAlphabetically(SeriesMap(episodes, {}))

\* the filter tuple the hook reads from the UI store; active is the id of
\* playlists.find((p) => p.id === activePlaylistId), NULL when there is none
TupleOf(list, activeId, h) ==
    [active |-> FindPlaylist(list, activeId).id, searchQuery |-> h.searchQuery,
     selectedGroup |-> h.selectedGroup, contentFilter |-> h.contentFilter]

\* params: selectedGroup || ''
Params(t) ==
    [playlistId |-> t.active, searchQuery |-> t.searchQuery,
     selectedGroup |-> t.selectedGroup, contentFilter |-> t.contentFilter]

\* useRef({playlistId: '', searchQuery: '', selectedGroup: '', contentFilter: ''})
NoParams ==
    [playlistId |-> "", searchQuery |-> <<>>, selectedGroup |-> <<>>,
     contentFilter |-> ""]

NoTuple ==
    [active |-> NULL, searchQuery |-> <<>>, selectedGroup |-> <<>>,
     contentFilter |-> ""]

NoLoad == [pending |-> FALSE, offset |-> 0, tuple |-> NoTuple]

\* the hook before its first render: useState and useRef initial values,
\* next to the searchQuery, selectedGroup and contentFilter of the UI store
HkUnmounted(searchQuery, selectedGroup, contentFilter) ==
    [pc |-> "unmounted",
     searchQuery |-> searchQuery, selectedGroup |-> selectedGroup,
     contentFilter |-> contentFilter,
     channels |-> <<>>, hasMore |-> TRUE, totalCount |-> 0, loading |-> FALSE,
     page |-> 0, latest |-> NoParams, sorted |-> <<>>, fetched |-> FALSE,
     deps |-> NoTuple, length |-> 0, couldLoad |-> TRUE, inflight |-> NoLoad]

\* the arguments of the getChannels call of loadMore
LoadOptions(t) ==
    [playlistId |-> t.active,
     searchQuery |-> t.searchQuery,
     group |-> IF t.selectedGroup = Favorites THEN <<>> ELSE t.selectedGroup,
     isFavorite |-> IF t.selectedGroup = Favorites THEN "true" ELSE "undefined",
     contentType |-> IF t.contentFilter = "series" THEN "series"
                     ELSE IF t.contentFilter = "all" THEN "undefined"
                     ELSE t.contentFilter,
     limit |-> LoadLimit, offset |-> 0]

\* refresh()
Refresh(h) ==
    [h EXCEPT !.channels = <<>>, !.hasMore = TRUE, !.page = 0,
              !.sorted = <<>>, !.fetched = FALSE]

\* hasMore taken from the size of the served page alone
HasMoreFullPage(offset, served, total) == served >= PageSize

\* setHasMore(offset + newChannels.length < total)
HasMoreAfter(offset, served, total) == offset + served < total

\* loadMore from "Paginate from the sorted/grouped channels" to its finally
ServePage(h, offset) ==
    LET newChannels == Slice(h.sorted, offset, offset + PageSize)
        total == Len(h.sorted)
    IN  [h EXCEPT !.totalCount = total,
                  !.hasMore = HasMoreAfter(offset, Len(newChannels), total),
                  !.channels = @ \o newChannels,
                  !.page = @ + 1,
                  !.loading = FALSE]

\* a loadMore that goes on when hasMore is false
LoadMoreWhatever(h, t, hasMore) ==
    IF t.active = NULL \/ h.loading THEN h
    ELSE IF Params(t) # h.latest THEN Refresh([h EXCEPT !.latest = Params(t)])
    ELSE IF ~h.fetched
         THEN [h EXCEPT !.loading = TRUE,
                        !.inflight = [pending |-> TRUE,
                                      offset |-> h.page * PageSize,
                                      tuple |-> t]]
         ELSE ServePage([h EXCEPT !.loading = TRUE], h.page * PageSize)

\* loadMore up to its await, or to its end when the set is cached; hasMore
\* is the value of the render that made the callback
LoadMore(h, t, hasMore) ==
    IF t.active = NULL \/ h.loading \/ ~hasMore THEN h
    ELSE IF Params(t) # h.latest THEN Refresh([h EXCEPT !.latest = Params(t)])
    ELSE IF ~h.fetched
         THEN [h EXCEPT !.loading = TRUE,
                        !.inflight = [pending |-> TRUE,
                                      offset |-> h.page * PageSize,
                                      tuple |-> t]]
         ELSE ServePage([h EXCEPT !.loading = TRUE], h.page * PageSize)

\* the effect "Initial load and refresh on filter changes"
FilterChangeEffect(h, t) ==
    IF t.active = NULL
    THEN [h EXCEPT !.channels = <<>>, !.hasMore = FALSE, !.totalCount = 0]
    ELSE IF Params(t) # h.latest
    THEN [h EXCEPT !.latest = Params(t), !.channels = <<>>, !.hasMore = TRUE,
                   !.page = 0, !.sorted = <<>>, !.fetched = FALSE]
    ELSE h

\* the effect "Auto-load first page"; length and hasMore are the values of
\* the render, loadingRef.current is read when the effect runs
AutoLoadEffect(h, t, length, hasMore) ==
    IF t.active # NULL /\ length = 0 /\ hasMore /\ ~h.loading
    THEN LoadMore(h, t, hasMore)
    ELSE h

\* one render and the effects whose dependencies changed since the last
\* one: [activePlaylist, searchQuery, selectedGroup, contentFilter] for the
\* first, these with channels.length and hasMore for the second
Render(h, t) ==
    LET first == h.pc = "unmounted"
        run1 == first \/ h.deps # t
        run2 == run1 \/ h.length # Len(h.channels) \/ h.couldLoad # h.hasMore
        h1 == IF run1 THEN FilterChangeEffect(h, t) ELSE h
        h2 == IF run2 THEN AutoLoadEffect(h1, t, Len(h.channels), h.hasMore) ELSE h1
    IN  [h2 EXCEPT !.pc = "mounted", !.deps = t,
                   !.length = Len(h.channels), !.couldLoad = h.hasMore]

\* renders until no effect sets state any more
RECURSIVE Settle(_, _)
Settle(h, t) == IF Render(h, t) = h THEN h ELSE Settle(Render(h, t), t)

\* the channel records the list is served from
ListChannel(id, pid, name, group, type, favorite, seriesId) ==
    [id |-> id, playlistId |-> pid, name |-> name, url |-> UrlA,
     group |-> group, contentType |-> type, isFavorite |-> favorite,
     seriesId |-> seriesId, seriesName |-> <<>>, seasonNum |-> <<>>,
     episodeNum |-> <<>>]

SeriesX == <<"x">>

ListPool(sid) ==
    {ListChannel("c1", "p1", <<"b">>, GroupNews, "live", "undefined", <<>>),
     ListChannel("c2", "p1", <<"a">>, GroupNews, "live", "true", <<>>),
     ListChannel("c3", "p1", <<"x", " ", "S", "1", "E", "2">>, GroupNews, "series",
                 "false", SeriesX),
     ListChannel("c4", "p1", <<"x", " ", "S", "1", "E", "1">>, GroupMovies, "series",
                 "true", sid),
     ListChannel("c5", "p1", <<"A">>, GroupMovies, "live", "false", <<>>),
     ListChannel("c6", "p2", <<"c">>, GroupNews, "live", "undefined", <<>>)}

StoreOf(records) ==
    [k \in {r.id : r \in records} |-> CHOOSE r \in records : r.id = k]

\* every store that holds the record of p2 and some records of p1
ListStores ==
    {StoreOf(records) : records \in
        UNION {{s \in SUBSET ListPool(sid) : \E r \in s : r.playlistId = "p2"} :
                  sid \in {<<>>, SeriesX}}}

FullListStore == StoreOf(ListPool(SeriesX))

ListPlaylists ==
    [k \in PlaylistIds |-> [id |-> k, type |-> "m3u", url |-> UrlA, channelCount |-> 0]]

SearchQueries == {<<>>, <<"a">>}
SelectedGroups == {<<>>, GroupNews, Favorites}
ContentFilters == {"all", "live", "series"}

\* what the page actions leave alone
pageFixed == <<dbVars, playlistToUpdate, imp, ghostVars, mg, ps, xt, call, lateVars>>

Tuple == TupleOf(playlists, activePlaylistId, hk)

\* the component that uses the hook renders for the first time
Mount ==
    /\ hk.pc = "unmounted"
    /\ \E t \in {Tuple} : hk' = Settle(hk, t)
    /\ UNCHANGED <<pageFixed, playlists, activePlaylistId>>

\* the store read of a first page resolves: loadMore goes on behind its
\* await with the offset and the filters it started with
FetchDone ==
    /\ hk.pc = "mounted"
    /\ hk.inflight.pending
    /\ \E o \in {hk.inflight}, t \in {Tuple} :
       \E rows \in {GetChannels(dbChannels, LoadOptions(o.tuple))} :
       \E sorted \in {IF o.tuple.contentFilter = "series"
                      THEN GroupSeriesEpisodes(rows)
                      ELSE SortAlphabetically(rows)} :
       \E h \in {[hk EXCEPT !.sorted = sorted, !.fetched = TRUE,
                            !.inflight = NoLoad]} :
       \E served \in {ServePage(h, o.offset)} :
           hk' = Settle(served, t)
    /\ UNCHANGED <<pageFixed, playlists, activePlaylistId>>

\* ChannelList.handleScroll: if (!hasMore || loading) return; loadMore()
ScrollLoadMore ==
    /\ hk.pc = "mounted"
    /\ hk.hasMore /\ ~hk.loading
    /\ hk' = Settle(LoadMore(hk, Tuple, hk.hasMore), Tuple)
    /\ UNCHANGED <<pageFixed, playlists, activePlaylistId>>

\* setSearchQuery(query)
SetSearchQuery(query) ==
    /\ hk.pc = "mounted"
    /\ hk.searchQuery # query
    /\ LET h == [hk EXCEPT !.searchQuery = query]
       IN  hk' = Settle(h, TupleOf(playlists, activePlaylistId, h))
    /\ UNCHANGED <<pageFixed, playlists, activePlaylistId>>

\* setSelectedGroup(group)
SetSelectedGroup(group) ==
    /\ hk.pc = "mounted"
    /\ hk.selectedGroup # group
    /\ LET h == [hk EXCEPT !.selectedGroup = group]
       IN  hk' = Settle(h, TupleOf(playlists, activePlaylistId, h))
    /\ UNCHANGED <<pageFixed, playlists, activePlaylistId>>

\* setContentFilter(filter): set({contentFilter: filter, selectedGroup: null})
SetContentFilter(filter) ==
    /\ hk.pc = "mounted"
    /\ hk.contentFilter # filter
    /\ LET h == [hk EXCEPT !.contentFilter = filter, !.selectedGroup = <<>>]
       IN  hk' = Settle(h, TupleOf(playlists, activePlaylistId, h))
    /\ UNCHANGED <<pageFixed, playlists, activePlaylistId>>

\* Sidebar: setActivePlaylist(playlist.id), with the list on screen
ShowPlaylist(id) ==
    /\ hk.pc = "mounted"
    /\ id \in StoreIds(playlists)
    /\ activePlaylistId # id
    /\ activePlaylistId' = id
    /\ hk' = Settle(hk, TupleOf(playlists, id, hk))
    /\ UNCHANGED <<pageFixed, playlists>>

\* Sidebar, Delete: removePlaylist(playlist.id), with the list on screen
DropPlaylist(id) ==
    /\ hk.pc = "mounted"
    /\ id \in StoreIds(playlists)
    /\ playlists' = RemoveFrom(playlists, id)
    /\ activePlaylistId' = ActiveAfterRemove(playlists, activePlaylistId, id)
    /\ hk' = Settle(hk, TupleOf(playlists', activePlaylistId', hk))
    /\ UNCHANGED pageFixed

\* refreshPlaylists(), as the import handlers call it, with the list on
\* screen: every playlist object is a new one, so both effects run again
RelistPlaylists ==
    /\ hk.pc = "mounted"
    /\ playlists' = RefreshedList(dbPlaylists)
    /\ activePlaylistId' = RefreshedActive(RefreshedList(dbPlaylists))
    /\ hk' = Settle([hk EXCEPT !.deps = NoTuple],
                    TupleOf(playlists', activePlaylistId', hk))
    /\ UNCHANGED pageFixed

\* loadMore(), called whatever the list shows, with the callback of the
\* last render
LoadMoreCall ==
    /\ hk.pc = "mounted"
    /\ \E t \in {Tuple} :
       \E h \in {LoadMore(hk, t, hk.hasMore)} :
           hk' = Settle(h, t)
    /\ UNCHANGED <<pageFixed, playlists, activePlaylistId>>

\* loadMore called again and again, under a filter tuple that stays as it is
NextCalls ==
    \/ Mount
    \/ FetchDone
    \/ LoadMoreCall

\* loadMore alone, under a filter tuple that stays as it is
NextPages ==
    \/ Mount
    \/ FetchDone
    \/ ScrollLoadMore

\* the list under changing filters and playlists
NextList ==
    \/ Mount
    \/ FetchDone
    \/ ScrollLoadMore
    \/ \E query \in SearchQueries : SetSearchQuery(query)
    \/ \E group \in SelectedGroups : SetSelectedGroup(group)
    \/ \E filter \in ContentFilters : SetContentFilter(filter)
    \/ \E id \in PlaylistIds : ShowPlaylist(id)
    \/ \E id \in PlaylistIds : DropPlaylist(id)
    \/ RelistPlaylists

-----------------------------------------------------------------------------
(* getChannels alone (lib/db.ts 131-178), on every store of a record pool *)
(* and every combination of options                                       *)

\* the largest offset of the options
MaxOffset == 2

\* limit = 100 when no limit is given
DefaultLimit == 100

GroupAll == AllGroups

\* records of two playlists, of groups 'N', 'M' and 'all'
GetPool ==
    {ListChannel("c1", "p1", <<"b">>, GroupNews, "live", "undefined", <<>>),
     ListChannel("c2", "p1", <<"a">>, GroupNews, "live", "true", <<>>),
     ListChannel("c3", "p1", <<"A">>, GroupAll, "live", "false", <<>>),
     ListChannel("c4", "p1", <<"a", "b">>, GroupMovies, "movie", "true", <<>>),
     ListChannel("c6", "p2", <<"a">>, GroupNews, "live", "true", <<>>)}

\* every store that holds the record of p2 and some records of p1
GetStores ==
    {StoreOf(records) :
        records \in {s \in SUBSET GetPool : \E r \in s : r.playlistId = "p2"}}

\* the options of a call; offset and limit after their defaults
GetOptions ==
    [playlistId : PlaylistIds,
     searchQuery : {<<>>, <<"a">>, <<"B">>},
     group : {<<>>, GroupNews, GroupAll},
     isFavorite : {"undefined", "true", "false"},
     contentType : {"undefined", "all", "live", "movie"},
     offset : 0..MaxOffset,
     limit : {1, 2, DefaultLimit}]

GcReady(options) ==
    [op |-> "getChannels", pc |-> "ready", options |-> options, returned |-> <<>>]

\* getChannels
GetChannelsCall ==
    /\ call.op = "getChannels"
    /\ call.pc = "ready"
    /\ call' = [call EXCEPT !.pc = "done",
                            !.returned = GetChannels(dbChannels, call.options)]
    /\ UNCHANGED <<appVars, mg, hk, ps, xt, lateVars>>
-----------------------------------------------------------------------------
(* groupSeriesEpisodes alone (cloudflare-worker/README.md 65-86), on every *)
(* list of series records within the bound, and on its own output          *)

\* the longest list of records grouped
MaxEpisodes == 3

SeriesRecord(id, name, seriesId, seriesName) ==
    [ListChannel(id, "p1", name, GroupNews, "series", "undefined", seriesId)
        EXCEPT !.seriesName = seriesName]

\* records with and without a series id and a series name; names with an
\* episode tag, without one, and made of the tag alone
EpisodePool ==
    {SeriesRecord("e1", <<"x", " ", "S", "1", "E", "2">>, <<"7">>, <<>>),
     SeriesRecord("e2", <<"x", " ", "S", "1", "E", "1">>, <<"7">>, <<"y">>),
     SeriesRecord("e3", <<"x", " ", "S", "1", "E", "1">>, <<>>, <<"x">>),
     SeriesRecord("e4", <<"x">>, <<>>, <<>>),
     SeriesRecord("e5", <<"S", "1", "E", "2">>, <<>>, <<>>),
     SeriesRecord("e6", <<"B", " ", "s", "2", "e", "1", " ", "z">>, <<>>, <<>>),
     SeriesRecord("e7", <<"a", " ", "1", "x", "0", "2">>, <<>>, <<>>),
     SeriesRecord("e8", <<"X", " ">>, <<>>, <<" ", "q">>),
     SeriesRecord("e9", <<"B", " ", "S", "1", "E", "1">>, <<>>, <<>>)}

EpisodeLists == UNION {[1..n -> EpisodePool] : n \in 0..MaxEpisodes}

GrReady(episodes) ==
    [pc |-> "group", episodes |-> episodes, rows |-> <<>>, again |-> <<>>]

\* groupSeriesEpisodes on the records
GroupRun ==
    /\ hk.pc = "group"
    /\ hk' = [hk EXCEPT !.pc = "grouped", !.rows = GroupSeriesEpisodes(hk.episodes)]
    /\ UNCHANGED <<appVars, mg, ps, xt, call, lateVars>>

\* groupSeriesEpisodes on the rows it returned
GroupAgain ==
    /\ hk.pc = "grouped"
    /\ hk' = [hk EXCEPT !.pc = "regrouped", !.again = GroupSeriesEpisodes(hk.rows)]
    /\ UNCHANGED <<appVars, mg, ps, xt, call, lateVars>>

NextGroup == GroupRun \/ GroupAgain
-----------------------------------------------------------------------------
(* The store connection: getDB and resetDatabase (lib/db.ts 23-46 and      *)
(* 269-284).  A getDB call runs to its await of openDB; the open resolves  *)
(* or rejects in a later step.  Connections are numbered in the order      *)
(* openDB was called; 0 stands for the null handle.                        *)

\* the number of openDB calls of a run
MaxOpens == 3

NoHandle == 0

\* db: the module variable; pending: the opens awaited; live: the
\* connections open; current: the opens begun since the last reset that
\* have not failed; overlapped: an open began while another was awaited
ConnReady ==
    [pc |-> "run", db |-> NoHandle, pending |-> {}, live |-> {}, current |-> {},
     allocated |-> 0, returned |-> NoHandle, overlapped |-> FALSE]

\* getDB, up to the await of openDB or to its return
GetDBCall ==
    /\ conn.pc = "run"
    /\ IF conn.db # NoHandle
       THEN conn' = [conn EXCEPT !.returned = conn.db]
       ELSE /\ conn.allocated < MaxOpens
            /\ conn' = [conn EXCEPT !.allocated = @ + 1,
                                    !.pending = @ \cup {conn.allocated + 1},
                                    !.current = @ \cup {conn.allocated + 1},
                                    !.overlapped = @ \/ conn.pending # {}]
    /\ UNCHANGED <<appVars, earlyVars, history, currentChannel, now, dr>>

\* openDB resolves: 'db = await openDB(...); return db'
OpenDone(h) ==
    /\ conn.pc = "run"
    /\ h \in conn.pending
    /\ conn' = [conn EXCEPT !.pending = @ \ {h}, !.live = @ \cup {h},
                            !.db = h, !.returned = h]
    /\ UNCHANGED <<appVars, earlyVars, history, currentChannel, now, dr>>

\* openDB rejects: getDB throws and db keeps its value
OpenFailed(h) ==
    /\ conn.pc = "run"
    /\ h \in conn.pending
    /\ conn' = [conn EXCEPT !.pending = @ \ {h}, !.current = @ \ {h}]
    /\ UNCHANGED <<appVars, earlyVars, history, currentChannel, now, dr>>

\* resetDatabase: close the connection of the handle and clear the handle
ResetDatabase ==
    /\ conn.pc = "run"
    /\ conn' = [conn EXCEPT !.live = @ \ {conn.db}, !.db = NoHandle,
                            !.current = {}, !.overlapped = FALSE]
    /\ UNCHANGED <<appVars, earlyVars, history, currentChannel, now, dr>>

NextConn ==
    \/ GetDBCall
    \/ \E h \in 1..MaxOpens : OpenDone(h)
    \/ \E h \in 1..MaxOpens : OpenFailed(h)
    \/ ResetDatabase
-----------------------------------------------------------------------------
(* The play history of the UI store: setCurrentChannel and addToHistory    *)
(* (store/useStore.ts, listed in unnamed/part_003 290-301 and 318-325).    *)
(* The history is persisted: a run starts from a history of earlier plays. *)

\* slice(0, 50)
HistoryLimit == 50

\* the clock readings of a run
MaxPlays == 3

\* the channels played: at the tail and at the head of the longest initial
\* history, and one that is in none
PlayedIds == {1, HistoryLimit, HistoryLimit + 1}

\* setCurrentChannel(null)
NullChannel == [id |-> 0, name |-> <<>>, logo |-> <<>>]

PlayedChannel(id) == [id |-> id, name |-> <<"n">>, logo |-> <<>>]

HistoryItem(channelId, channelName, playlistId, logo) ==
    [channelId |-> channelId, channelName |-> channelName,
     playlistId |-> playlistId, logo |-> logo]

\* the history after the channels 1..n were played in turn, one a tick
PlayedInTurn(n) ==
    [i \in 1..n |->
        HistoryItem(n + 1 - i, <<"n">>, "", <<>>) @@ [timestamp |-> n + 1 - i]]

\* Date.now() does not go back
ClockReadings == {now, now + 1}

\* an addToHistory that keeps the earlier entry of the channel
AddedToHistoryKeepsOld(entries, item, time) ==
    SubSeq(<<item @@ [timestamp |-> time]>> \o entries, 1,
           Min2(HistoryLimit, Len(entries) + 1))

\* addToHistory: [{...item, timestamp}, ...filtered].slice(0, 50)
AddedToHistory(entries, item, time) ==
    LET filtered == SelectSeq(entries, LAMBDA h : h.channelId # item.channelId)
    IN  SubSeq(<<item @@ [timestamp |-> time]>> \o filtered, 1,
               Min2(HistoryLimit, Len(filtered) + 1))

AddToHistory(item) ==
    /\ \E time \in ClockReadings :
          /\ time <= HistoryLimit + MaxPlays
          /\ now' = time
          /\ history' = AddedToHistory(history, item, time)
    /\ UNCHANGED <<appVars, earlyVars, conn, currentChannel, dr>>

\* state.activePlaylistId || ''
PlaylistIdOrEmpty == IF activePlaylistId = NULL THEN "" ELSE activePlaylistId

SetCurrentChannel(channel) ==
    /\ currentChannel' = channel
    /\ IF channel # NullChannel
       THEN \E time \in ClockReadings :
               /\ time <= HistoryLimit + MaxPlays
               /\ now' = time
               /\ history' = AddedToHistory(history,
                                 HistoryItem(channel.id, channel.name,
                                             PlaylistIdOrEmpty, channel.logo),
                                 time)
       ELSE UNCHANGED <<history, now>>
    /\ UNCHANGED <<appVars, earlyVars, conn, dr>>

NextHistory ==
    \/ \E id \in PlayedIds : SetCurrentChannel(PlayedChannel(id))
    \/ SetCurrentChannel(NullChannel)
    \/ \E id \in PlayedIds : AddToHistory(HistoryItem(id, <<"n">>, "", <<>>))
-----------------------------------------------------------------------------
(* The playlist list of the UI store alone: addPlaylist, removePlaylist,   *)
(* setActivePlaylist and refreshPlaylists (store/useStore.ts, listed in    *)
(* unnamed/part_003 263-280 and 351-373)                                   *)

\* the ids crypto.randomUUID() gives the entries addPlaylist adds
AddedIds == {UnsavedId, "tmp2"}

\* addPlaylist(playlist)
AddPlaylist(id, meta) ==
    /\ id \notin StoreIds(playlists)
    /\ playlists' = AddPlaylistTo(playlists, id, meta)
    /\ activePlaylistId' = ActiveAfterAdd(activePlaylistId, id)
    /\ UNCHANGED <<dbVars, playlistToUpdate, imp, pureVars>>

\* refreshPlaylists(), its read of the 'playlists' store resolved
RefreshPlaylists ==
    /\ playlists' = RefreshedList(dbPlaylists)
    /\ activePlaylistId' = RefreshedActive(RefreshedList(dbPlaylists))
    /\ UNCHANGED <<dbVars, playlistToUpdate, imp, pureVars>>

NextUi ==
    \/ \E id \in AddedIds :
           AddPlaylist(id, [type |-> "m3u", url |-> UrlA]) /\ UNCHANGED ghostVars
    \/ \E id \in PlaylistIds \cup AddedIds : RemovePlaylist(id) /\ UNCHANGED ghostVars
    \/ \E id \in PlaylistIds \cup AddedIds :
           SetActivePlaylist(id) /\ UNCHANGED ghostVars
    \/ RefreshPlaylists /\ UNCHANGED ghostVars
-----------------------------------------------------------------------------
(* The series drawer: the effect of SeriesDrawer (unnamed/part_002 33-121)  *)
(* over getChannels, fetchXtreamSeriesEpisodes and saveChannels.  The id of *)
(* a channel record is a crypto.randomUUID() value: a key of the store is a *)
(* number here, the order of the numbers standing for the order of the     *)
(* UUID strings, and a new record gets any of the numbers not in use.      *)

\* the remote requests of one behaviour
MaxFetches == 2

\* the numbers of series the playlist may hold
SeriesCounts == {2, DefaultLimit}

\* the keys of the store, in key order
UuidOrder == [i \in 1..(DefaultLimit + MaxFetches + 2) |-> i]

\* the records under the keys, in their order
RecordsInOrder(channels, ordered) ==
    [i \in 1..Len(ordered) |-> channels[ordered[i]]]

\* getChannels({playlistId, contentType, limit}): the records of the
\* by-playlist-type index in key order, sliced from offset 0
GetChannelsOfType(channels, playlistId, contentType, limit) ==
    Slice(RecordsInOrder(channels,
              SelectSeq(UuidOrder,
                        LAMBDA k : /\ k \in ByPlaylist(channels, playlistId)
                                   /\ channels[k].contentType = contentType)),
          0, limit)

\* the series listing of the playlist: loadMore's read under the content
\* filter 'series', grouped and sorted
SeriesListing(channels, playlistId) ==
    GroupSeriesEpisodes(GetChannelsOfType(channels, playlistId, "series", LoadLimit))

\* the row of the listing for a series key: groupSeriesEpisodes makes it of
\* the first record of the key among the records read
FirstRecord(records, key) ==
    records[CHOOSE i \in 1..Len(records) :
               /\ SeriesKey(records[i]) = key
               /\ \A j \in 1..(i - 1) : SeriesKey(records[j]) # key]

SeriesRowOf(first) ==
    [first EXCEPT !.name = Or(first.seriesName, Trim(StripEpisode(first.name))),
                  !.seriesId = SeriesKey(first),
                  !.seriesName = Or(first.seriesName, Trim(StripEpisode(first.name)))]

SeriesRow(channels, playlistId, key) ==
    SeriesRowOf(FirstRecord(GetChannelsOfType(channels, playlistId, "series",
                                              LoadLimit), key))

\* the filter of fetchEpisodes: a real episode (with URL and episodeNum) of
\* the series, by series id, by series name, or by a tagged name that
\* contains the series name
IsSeriesEpisode(ep, seriesId, seriesName) ==
    /\ ep.url # <<>>
    /\ ep.episodeNum # <<>>
    /\ \/ ep.seriesId = seriesId
       \/ /\ ep.seriesName # <<>>
          /\ ToLowerCase(ep.seriesName) = ToLowerCase(seriesName)
       \/ /\ Includes(ToLowerCase(ep.name), ToLowerCase(seriesName))
          /\ \E i \in 1..Len(ep.name) : EpisodeTagAt(ep.name, i)

\* cachedEpisodes.filter(...)
SeriesEpisodes(cached, seriesId, seriesName) ==
    SelectSeq(cached, LAMBDA ep : IsSeriesEpisode(ep, seriesId, seriesName))

\* activePlaylist.type === 'xtream' && xtreamUrl && xtreamUser && xtreamPass
HasCredentials(playlist) ==
    /\ playlist.type = "xtream"
    /\ playlist.xtreamUrl # <<>>
    /\ playlist.xtreamUser # <<>>
    /\ playlist.xtreamPass # <<>>

\* the records fetchXtreamSeriesEpisodes returns, under the ids they got
EpisodesWithIds(episodes, ids) ==
    [i \in 1..Len(episodes) |->
        [id |-> ids[i], isFavorite |-> "undefined"] @@ episodes[i]]

\* the drawer before it is opened; saved is the set of series whose
\* episodes a drawer has fetched and saved, free the ids not in use
DrClosed(server, free) ==
    [pc |-> "closed", seriesId |-> <<>>, seriesName |-> <<>>, seasons |-> <<>>,
     source |-> "none", requests |-> 0, saved |-> {}, server |-> server,
     free |-> free]

\* the effect up to the await of the remote request, or to its end
DrOpened(d, channels, playlist, seriesId, seriesName, cached) ==
    IF Len(cached) > 0
    THEN [d EXCEPT !.pc = "open", !.seriesId = seriesId,
                   !.seriesName = seriesName, !.seasons = cached,
                   !.source = "cache"]
    ELSE IF HasCredentials(playlist)
    THEN [d EXCEPT !.pc = "fetching", !.seriesId = seriesId,
                   !.seriesName = seriesName, !.seasons = <<>>,
                   !.source = "none", !.requests = @ + 1]
    ELSE [d EXCEPT !.pc = "open", !.seriesId = seriesId,
                   !.seriesName = seriesName, !.seasons = <<>>,
                   !.source = "none"]

\* ChannelList.handleChannelClick on a row of the series listing: the
\* drawer opens and its effect runs fetchEpisodes
DrOpen(row) ==
    /\ dr.pc = "closed"
    /\ FindPlaylist(playlists, activePlaylistId).id # NULL
    /\ row.contentType = "series" /\ row.seriesId # <<>>
    /\ \E playlist \in {FindPlaylist(playlists, activePlaylistId)},
          seriesName \in {Or(row.seriesName, row.name)} :
       \E cached \in {SeriesEpisodes(GetChannelsOfType(dbChannels, playlist.id,
                                         "series", DefaultLimit),
                                     row.seriesId, seriesName)} :
          /\ Len(cached) > 0 \/ dr.requests < MaxFetches
          /\ dr' = DrOpened(dr, dbChannels, playlist, row.seriesId, seriesName, cached)
    /\ UNCHANGED <<appVars, earlyVars, conn, history, currentChannel, now>>

\* the remote request fails: catch (apiError) { setSeasons([]) }
DrFetchFailed ==
    /\ dr.pc = "fetching"
    /\ dr' = [dr EXCEPT !.pc = "open", !.seasons = <<>>, !.source = "none"]
    /\ UNCHANGED <<appVars, earlyVars, conn, history, currentChannel, now>>

\* the remote request returns: saveChannels(activePlaylist.id,
\* fetchedEpisodes), then processEpisodes(fetchedEpisodes); a save that
\* throws ends in the same catch
DrFetched(ids, ok) ==
    /\ dr.pc = "fetching"
    /\ tx = TxIdle
    /\ \E pid \in {FindPlaylist(playlists, activePlaylistId).id} :
       \E fetched \in {SeasonEpisodes(dr.seriesId, dr.seriesName, dr.server)} :
       \E episodes \in {EpisodesWithIds(fetched, ids) : n \in {Len(ids)} \cap {Len(fetched)}} :
       \E written \in {SaveChannelsChannels(dbChannels, pid, episodes)} :
          /\ dbChannels' = IF ok THEN CommitResult(dbChannels, written)
                           ELSE AbortResult(dbChannels, written)
          /\ dbPlaylists' =
                 IF ok THEN CommitResult(dbPlaylists,
                                SaveChannelsPlaylists(dbPlaylists, written, pid))
                 ELSE AbortResult(dbPlaylists,
                                SaveChannelsPlaylists(dbPlaylists, written, pid))
          /\ dr' = IF ok
                   THEN [dr EXCEPT !.pc = "open", !.seasons = episodes,
                                   !.source = "remote",
                                   !.saved = IF episodes = <<>> THEN @
                                             ELSE @ \cup {dr.seriesId},
                                   !.free = @ \ {ids[i] : i \in 1..Len(ids)}]
                   ELSE [dr EXCEPT !.pc = "open", !.seasons = <<>>,
                                   !.source = "none"]
    /\ UNCHANGED <<txVars, uiVars, imp, ghostVars, earlyVars, conn, history,
                   currentChannel, now>>

\* onClose: setSeriesDrawerOpen(false)
DrClose ==
    /\ dr.pc = "open"
    /\ dr' = [dr EXCEPT !.pc = "closed"]
    /\ UNCHANGED <<appVars, earlyVars, conn, history, currentChannel, now>>

\* the series whose rows are clicked
ClickedSeries == {NumberText(1), NumberText(2)}

\* the sequences of distinct ids out of a set, of the lengths from 0 to 1
FreshIds(free) == {<<>>} \cup {<<id>> : id \in free}

NextDrawer ==
    \/ \E key \in ClickedSeries :
          \E row \in {SeriesRow(dbChannels, activePlaylistId, key)} : DrOpen(row)
    \/ DrFetchFailed
    \/ \E ids \in FreshIds(dr.free), ok \in BOOLEAN : DrFetched(ids, ok)
    \/ DrClose

\* the placeholder of series k as fetchXtreamChannels made it and
\* savePlaylist stored it under a key
StoredPlaceholder(k, key) ==
    Stored([id |-> key, isFavorite |-> "undefined"]
           @@ SeriesPlaceholder(Stream(k, <<"n">> \o NumberText(k), "1"),
                                <<Category>>),
           "p1")

\* a store of n placeholders, under the keys from 2 on
DrawerStore(n) == [key \in 2..(n + 1) |-> StoredPlaceholder(key - 1, key)]

\* the ids a new record may get: one before the placeholders' and some
\* behind them
DrawerFree(n) == {1} \cup (n + 2)..(n + MaxFetches + 1)

DrawerPlaylist(type, count) ==
    [id |-> "p1", type |-> type, url |-> UrlA, channelCount |-> count,
     xtreamUrl |-> IF type = "xtream" THEN BaseUrl ELSE <<>>,
     xtreamUser |-> IF type = "xtream" THEN Username ELSE <<>>,
     xtreamPass |-> IF type = "xtream" THEN Password ELSE <<>>]

\* what get_series_info returns: no episode, an episode with a title of
\* its own, an episode without one
DrawerSeasons ==
    {<<>>,
     <<[key |-> <<"1">>, episodes |-> <<Episode(7, <<"E">>, <<>>, <<1>>)>>]>>,
     <<[key |-> <<"1">>, episodes |-> <<Episode(8, <<>>, <<2>>, <<>>)>>]>>}
-----------------------------------------------------------------------------
(* Claims about savePlaylist *)

IdsOf(channels) == {channels[i].id : i \in 1..Len(channels)}

\* C1: while savePlaylist(p, {replace: true}) runs, readers find under p.id
\* exactly the records that were there before the call, and once it has
\* completed they find exactly the ids of p.channels: every older record of
\* p.id that is not in p.channels is gone, and old and new records are never
\* seen together.
C1_ReplaceExact ==
    tx.replace =>
        /\ tx.pc # "idle" =>
              /\ ByPlaylist(dbChannels, tx.pid) = ByPlaylist(tx.snapC, tx.pid)
              /\ \A k \in ByPlaylist(dbChannels, tx.pid) : dbChannels[k] = tx.snapC[k]
        /\ (tx.pc = "idle" /\ tx.last = "committed") =>
              /\ ByPlaylist(dbChannels, tx.pid) = IdsOf(tx.channels)
              /\ \A k \in ByPlaylist(tx.snapC, tx.pid) \ IdsOf(tx.channels) :
                     k \notin DOMAIN dbChannels

\* C1, witness: a replace save has completed that dropped an old record of the
\* playlist and added a new one
C1_Witness ==
    /\ tx.pc = "idle" /\ tx.last = "committed" /\ tx.replace
    /\ ByPlaylist(tx.snapC, tx.pid) \ IdsOf(tx.channels) # {}
    /\ IdsOf(tx.channels) \ ByPlaylist(tx.snapC, tx.pid) # {}

\* C8: after a savePlaylist call whose transaction failed, the committed
\* playlist records and channel records are those of before the call: no
\* metadata and no channel of the failed call is visible, and every record
\* the playlist owned is still there.
C8_FailedSaveUntouched ==
    (tx.pc = "idle" /\ tx.last \in FailKinds) =>
        /\ dbPlaylists = tx.snapP
        /\ dbChannels = tx.snapC

\* C8, witness: a replace save of a playlist that owned records failed with a
\* quota error after its deletes, its metadata put and a batch of channel puts
C8_Witness ==
    /\ tx.pc = "idle" /\ tx.last = "quota" /\ tx.replace
    /\ tx.i > 0
    /\ ByPlaylist(tx.snapC, tx.pid) # {}
    /\ tx.pid \notin DOMAIN tx.snapP \/ tx.snapP[tx.pid].channelCount # Len(tx.channels)

-----------------------------------------------------------------------------
(* Claims about the other writers of the Local Store *)

\* C17: every channel record carries the id of a playlist record of the
\* store, after any sequence of savePlaylist, saveChannels, deletePlaylist
\* and clearAllData calls
C17_NoOrphanChannels ==
    \A k \in DOMAIN dbChannels : dbChannels[k].playlistId \in DOMAIN dbPlaylists

\* C17: saveChannels has returned and the store holds a channel record of a
\* playlist that has no record
C17_Witness ==
    /\ call.op = "saveChannels"
    /\ call.returned = "undefined"
    /\ call.id \notin DOMAIN dbPlaylists
    /\ \E k \in DOMAIN dbChannels : dbChannels[k].playlistId = call.id

\* C18: deletePlaylist removes the playlist record and the channel records
\* of that playlist and leaves every other record as it was; for an id that
\* is not in the 'playlists' store it changes nothing
C18_DeleteFrame ==
    [][\A pid \in PlaylistIds :
          DeletePlaylistCall(pid) =>
              /\ DOMAIN dbPlaylists' = DOMAIN dbPlaylists \ {pid}
              /\ \A q \in DOMAIN dbPlaylists' : dbPlaylists'[q] = dbPlaylists[q]
              /\ DOMAIN dbChannels' =
                     {k \in DOMAIN dbChannels : dbChannels[k].playlistId # pid}
              /\ \A k \in DOMAIN dbChannels' : dbChannels'[k] = dbChannels[k]
              /\ pid \notin DOMAIN dbPlaylists =>
                     dbPlaylists' = dbPlaylists /\ dbChannels' = dbChannels]_vars

\* C18: deletePlaylist was called with an id that had no playlist record
\* and the store holds neither playlist nor channel records, after a
\* saveChannels had written channel records under that id
C18_Witness ==
    /\ call.op = "deletePlaylist"
    /\ call.id \notin DOMAIN dbPlaylists
    /\ DOMAIN dbChannels = {}
    /\ DOMAIN dbPlaylists = {}

\* what one channel record holds besides its playlist id
SameItem(record, item) ==
    /\ record.id = item.id
    /\ record.name = item.name
    /\ record.url = item.url
    /\ record.group = item.group
    /\ record.contentType = item.contentType
    /\ record.isFavorite = item.isFavorite

\* C19: a saveChannels that completes leaves every channel record of
\* another id as it was, holds every given item under the playlist id it
\* was given, and sets the channelCount of the playlist, when it has a
\* record, to the number of channel records the playlist then owns; it
\* touches no other playlist record
C19_SaveChannelsFrame ==
    [][\A pid \in PlaylistIds, items \in SavedLists :
          (call'.op = "saveChannels" /\ SaveChannelsCall(pid, items, TRUE)) =>
              /\ DOMAIN dbChannels' = DOMAIN dbChannels \cup IdsOf(items)
              /\ \A k \in DOMAIN dbChannels \ IdsOf(items) :
                     dbChannels'[k] = dbChannels[k]
              /\ \A i \in 1..Len(items) :
                     /\ dbChannels'[items[i].id].playlistId = pid
                     /\ SameItem(dbChannels'[items[i].id], items[i])
              /\ DOMAIN dbPlaylists' = DOMAIN dbPlaylists
              /\ \A q \in DOMAIN dbPlaylists \ {pid} : dbPlaylists'[q] = dbPlaylists[q]
              /\ pid \in DOMAIN dbPlaylists =>
                     /\ dbPlaylists'[pid].channelCount =
                            Cardinality({k \in DOMAIN dbChannels' :
                                            dbChannels'[k].playlistId = pid})
                     /\ [dbPlaylists'[pid] EXCEPT !.channelCount = 0]
                            = [dbPlaylists[pid] EXCEPT !.channelCount = 0]]_vars

\* C19: saveChannels has written into a playlist that has a record, while
\* another playlist owns a channel record: the count of the first is 1
C19_Witness ==
    /\ call.op = "saveChannels"
    /\ call.returned = "undefined"
    /\ call.id = "p1"
    /\ "p1" \in DOMAIN dbPlaylists
    /\ dbPlaylists["p1"].channelCount = 1
    /\ \E k \in DOMAIN dbChannels : dbChannels[k].playlistId = "p2"

\* a favourite flag as a truth value: unset counts as false
AsBoolean(flag) == IF flag = "true" THEN "true" ELSE "false"

\* C20: toggleChannelFavorite on a stored record makes the flag the negation
\* of what it was, unset counting as false, returns the new flag and changes
\* nothing else, so that the second of two consecutive toggles of a record
\* gives back the value it had before the first; on an id that is not
\* stored it returns false and changes nothing
C20_ToggleFlips ==
    [][\A cid \in SavedChannelIds :
          ToggleChannelFavoriteCall(cid) =>
              /\ dbPlaylists' = dbPlaylists
              /\ DOMAIN dbChannels' = DOMAIN dbChannels
              /\ \A k \in DOMAIN dbChannels \ {cid} : dbChannels'[k] = dbChannels[k]
              /\ cid \notin DOMAIN dbChannels => call'.returned = "false"
              /\ cid \in DOMAIN dbChannels =>
                     /\ dbChannels'[cid].isFavorite =
                            IF AsBoolean(dbChannels[cid].isFavorite) = "true"
                            THEN "false" ELSE "true"
                     /\ call'.returned = dbChannels'[cid].isFavorite
                     /\ [dbChannels'[cid] EXCEPT !.isFavorite = "undefined"]
                            = [dbChannels[cid] EXCEPT !.isFavorite = "undefined"]
                     /\ call.op = "toggleChannelFavorite" /\ call.id = cid
                        /\ call.before # "none" =>
                            AsBoolean(dbChannels'[cid].isFavorite)
                                = AsBoolean(call.before)]_vars

\* C20: the second of two consecutive toggles of a record whose flag was
\* unset has returned false
C20_Witness ==
    /\ call.op = "toggleChannelFavorite"
    /\ call.before = "true"
    /\ call.returned = "false"
    /\ call.id \in DOMAIN dbChannels
    /\ dbChannels[call.id].isFavorite = "false"
-----------------------------------------------------------------------------
(* Claims about imports, updates and deletions *)

\* the failures of an import before its save: a fetch error, an Xtream
\* authentication or account-state failure, a content family failing after
\* earlier ones were fetched, no parsed item, no item passing the import option
MustFail(outcome, items, option) ==
    \/ outcome \in {"fetchError", "authFail", "familyFail"}
    \/ Len(items) = 0
    \/ \A i \in 1..Len(items) : ~PassesOption(items[i], option)

\* a step is the run of an update that got to the end of its save
UpdateSaved ==
    /\ playlistToUpdate # NULL
    /\ FindPlaylist(playlists, playlistToUpdate).id # NULL
    /\ imp'.result = "done"
    /\ dbChannels' # dbChannels

\* the item with this url was marked favourite in the playlist: the user
\* starred it, or its record carries the flag
WasFavorite(pid, url) ==
    \/ <<pid, url>> \in favMarks
    \/ \E k \in ByPlaylist(dbChannels, pid) :
           dbChannels[k].url = url /\ dbChannels[k].isFavorite = "true"

\* C2: when an update of an existing playlist has been saved, every fresh
\* record whose url is the url of an item that was marked favourite in that
\* playlist before the update is stored with isFavorite true, whatever
\* imports, refreshes and toggles came before.
C2_FavoritesSurviveUpdate ==
    [][UpdateSaved =>
          \A k \in ByPlaylist(dbChannels', playlistToUpdate) :
              WasFavorite(playlistToUpdate, dbChannels'[k].url)
                  => dbChannels'[k].isFavorite = "true"]_vars

\* C2, witness: an update has been saved while a url of the playlist was
\* starred
C2_Witness ==
    /\ imp.result = "done"
    /\ \E k \in DOMAIN dbChannels :
           /\ <<dbChannels[k].playlistId, dbChannels[k].url>> \in favMarks
           /\ dbChannels[k].isFavorite = "false"

\* C6: a run of an import or update that fails before its save (one of the
\* failures of MustFail) leaves the playlist records and the channel records
\* of the Local Store as they were.
C6_FailedImportLeavesStore ==
    [][(dbPlaylists' # dbPlaylists \/ dbChannels' # dbChannels) =>
          \A kind \in {"m3u", "xtream", "file"}, option \in {"live", "all"} :
          \A outcome \in Outcomes(kind) :
          \A items \in Fetched(outcome) :
              MustFail(outcome, items, option)
                  => ~Import(kind, option, outcome, items, "ok")]_vars

\* C6, witness: the update of a stored playlist has thrown before its save
C6_Witness ==
    /\ imp.result = "error"
    /\ imp.error = "rejected"
    /\ playlistToUpdate \in DOMAIN dbPlaylists
    /\ ByPlaylist(dbChannels, playlistToUpdate) # {}

\* C7: a playlist the user has deleted has no playlist record and no channel
\* record in the Local Store, and is not in the playlist list, from the
\* deletion on.
C7_DeletedStaysDeleted ==
    \A id \in deletedIds :
        /\ id \notin DOMAIN dbPlaylists
        /\ ByPlaylist(dbChannels, id) = {}
        /\ id \notin StoreIds(playlists)

\* C7, witness: a deleted playlist is back in the playlist list
C7_Witness ==
    \E id \in deletedIds : id \in StoreIds(playlists)

-----------------------------------------------------------------------------
(* Claims about the favourite merge *)

Reverse(s) == [i \in 1..Len(s) |-> s[Len(s) + 1 - i]]

\* C3: the merge stars a fresh item exactly when its URL is the URL of a
\* starred existing item; it keeps every other field and the order of the
\* fresh items, leaves every non-matching item not starred, and does not
\* depend on the order of either list
C3_MergeByUrl ==
    mg.pc = "done" =>
        /\ Len(mg.result) = Len(mg.fresh)
        /\ \A i \in 1..Len(mg.fresh) :
              /\ mg.result[i].url = mg.fresh[i].url
              /\ mg.result[i].name = mg.fresh[i].name
              /\ mg.result[i].isFavorite \in {"true", "false"}
              /\ mg.result[i].isFavorite = "true" <=>
                    \E j \in 1..Len(mg.existing) :
                        /\ mg.existing[j].url = mg.fresh[i].url
                        /\ mg.existing[j].isFavorite = "true"
        /\ MergeFavorites(Reverse(mg.existing), mg.fresh) = mg.result
        /\ MergeFavorites(mg.existing, Reverse(mg.fresh)) = Reverse(mg.result)

\* C3: a merge that starred one fresh item and left another one, whose URL
\* is the URL of an existing item without a star, not starred
C3_Witness ==
    /\ mg.pc = "done"
    /\ \E i, k \in 1..Len(mg.result) :
          /\ mg.result[i].isFavorite = "true"
          /\ mg.result[k].isFavorite = "false"
          /\ \E j \in 1..Len(mg.existing) :
                /\ mg.existing[j].url = mg.result[k].url
                /\ mg.existing[j].isFavorite # "true"

-----------------------------------------------------------------------------
(* Claims about the parser *)

MetadataLines == {LInf, LInfNoName}
ValidUrlLines == {LUrl, LUrlPadded}
RejectedUrlLines == {LFtp, LNoScheme}
SkippedLines == {LHeader, LGrp, LComment, LBlank}

\* line j ends a well-formed record: a valid URL line whose nearest
\* preceding line that is not skipped is a metadata line
EndsRecord(lines, j) ==
    /\ lines[j] \in ValidUrlLines
    /\ \E i \in 1..(j - 1) :
          /\ lines[i] \in MetadataLines
          /\ \A k \in (i + 1)..(j - 1) : lines[k] \in SkippedLines

\* line j ends a malformed record: a metadata line followed by a line that
\* is not a URL the parser accepts
EndsMalformed(lines, j) ==
    /\ lines[j] \in RejectedUrlLines
    /\ \E i \in 1..(j - 1) :
          /\ lines[i] \in MetadataLines
          /\ \A k \in (i + 1)..(j - 1) : lines[k] \in SkippedLines

RecordEnds(lines) == {j \in 1..Len(lines) : EndsRecord(lines, j)}

\* C9: parseM3U returns for every content, and every well-formed record
\* is emitted, in order, whatever malformed records stand before it
C9_ParserTotal ==
    ps.pc = "done" =>
        /\ ~ps.threw
        /\ Len(ps.channels) = Cardinality(RecordEnds(ps.lines))
        /\ \A j \in RecordEnds(ps.lines) :
              ps.channels[Cardinality({i \in RecordEnds(ps.lines) : i <= j})].url
                  = Trim(ps.lines[j])

\* C9: a parsed content in which a well-formed record stands after a
\* malformed one, and is emitted
C9_Witness ==
    /\ ps.pc = "done"
    /\ \E m, j \in 1..Len(ps.lines) :
          /\ m < j
          /\ EndsMalformed(ps.lines, m)
          /\ ps.lines[m] = LNoScheme
          /\ EndsRecord(ps.lines, j)
          /\ \E k \in 1..Len(ps.channels) : ps.channels[k].url = Trim(ps.lines[j])

\* C10: a metadata line with no display name after its comma adds an
\* error carrying its 1-based line number and yields no item, even when a
\* valid URL line follows it
C10_NamelessEntryRejected ==
    ps.pc = "done" =>
        /\ \A i \in 1..Len(ps.lines) :
              ps.lines[i] = LInfNoName =>
                  \E e \in 1..Len(ps.errors) : ps.errors[e] = i
        /\ \A k \in 1..Len(ps.channels) : ps.channels[k].name # UnknownChannel

\* C10: a nameless metadata line followed by a valid URL line was parsed:
\* no error was recorded and an item named by the default was emitted
C10_Witness ==
    /\ ps.pc = "done"
    /\ ps.lines = <<LInfNoName, LUrl>>
    /\ ps.errors = <<>>
    /\ Len(ps.channels) = 1
    /\ ps.channels[1].name = UnknownChannel


\* the parser after the first j lines of a content
StateAfter(lines, j) == ParseFrom(ParseStart, SubSeq(lines, 1, j), 1)

\* the parser after each line of a content, from line n on
RECURSIVE TraceFrom(_, _, _)
TraceFrom(st, lines, n) ==
    IF n > Len(lines) THEN <<>>
    ELSE <<ParseLine(st, lines[n], n)>>
         \o TraceFrom(ParseLine(st, lines[n], n), lines, n + 1)

\* the parser before the first line and after each line: entry j + 1 is
\* the parser after line j
ParserTrace(lines) == <<ParseStart>> \o TraceFrom(ParseStart, lines, 1)

\* an entry is pending after line j
Pending(trace, j) == trace[j + 1].current.set

\* the number of items line j adds
Emitted(trace, j) == Len(trace[j + 1].channels) - Len(trace[j].channels)

\* what C11 says of a content, its items and its trace
EmitsAsClaimed(lines, channels, trace) ==
    /\ Len(channels) = Cardinality({j \in 1..Len(lines) : Emitted(trace, j) = 1})
    /\ Len(channels) <= Cardinality({j \in 1..Len(lines) : lines[j] \in MetadataLines})
    /\ \A j \in 1..Len(lines) :
          /\ Emitted(trace, j) \in {0, 1}
          /\ Emitted(trace, j) = 1 <=>
                 lines[j] \in ValidUrlLines /\ Pending(trace, j - 1)
          /\ lines[j] \in ValidUrlLines \cup RejectedUrlLines => ~Pending(trace, j)
          /\ Pending(trace, j) <=>
                 \/ lines[j] \in MetadataLines
                 \/ lines[j] \in SkippedLines /\ Pending(trace, j - 1)

\* C11: a line emits an item exactly when it is a valid http, https or rtmp
\* URL line read while an entry is pending, and then exactly one; an entry
\* is pending after a metadata line and stays so over skipped lines only, so
\* every URL line, accepted or not, clears it, and a content yields no more
\* items than it has metadata lines
C11_OnlyPendingUrlEmits ==
    ps.pc = "done" =>
        \A trace \in {ParserTrace(ps.lines)} :
            EmitsAsClaimed(ps.lines, ps.channels, trace)

\* C11: a parsed content in which a metadata line is followed by a rejected
\* URL line and then by a valid URL line, which emits nothing
C11_Witness ==
    /\ ps.pc = "done"
    /\ \E m, j \in 1..Len(ps.lines) :
          /\ m < j
          /\ EndsMalformed(ps.lines, m)
          /\ ps.lines[j] \in ValidUrlLines
          /\ \A k \in (m + 1)..(j - 1) : ps.lines[k] \in SkippedLines
          /\ Len(StateAfter(ps.lines, j).channels) = Len(StateAfter(ps.lines, j - 1).channels)
          /\ \A k \in 1..Len(ps.channels) : ps.channels[k].url # Trim(ps.lines[j])

\* what the names, groups and URLs of the pools contain, read off their text
PatternNames == {NEpisode, NEpisodeDash, NCross}
SeriesWordNames == {NSeriesWord, NBothWords}
MovieWordNames == {NMovieWord, NBothWords}
SeriesWordGroups == {GSeries, GBoth}
MovieWordGroups == {GMovie, GBoth, GVod}
MoviePathUrls == {UMovie, UVod, UBoth}
SeriesPathUrls == {USeries, UBoth}

\* the type of the first rule that matches, in the order of the five rules
FirstRuleType(name, group, url) ==
    IF name \in PatternNames THEN "series"
    ELSE IF group \in SeriesWordGroups THEN "series"
    ELSE IF group \in MovieWordGroups THEN "movie"
    ELSE IF url \in MoviePathUrls THEN "movie"
    ELSE IF url \in SeriesPathUrls THEN "series"
    ELSE IF name \in SeriesWordNames THEN "series"
    ELSE IF name \in MovieWordNames THEN "movie"
    ELSE "live"

\* C12: detectContentType returns the type of the first matching rule:
\* episode pattern in the name, keywords in the group (series before movie),
\* path in the URL (movie before series), keywords in the name (series before
\* movie), live otherwise; the result is one of live, movie and series
C12_FirstRuleDecides ==
    ps.pc = "classified" =>
        /\ ps.contentType \in ContentTypes
        /\ ps.contentType = FirstRuleType(ps.name, ps.group, ps.url)

\* C12: an item whose URL has a series path and whose name holds a movie
\* keyword, in a group without keywords, was classified as a series
C12_Witness ==
    /\ ps.pc = "classified"
    /\ ps.name = NMovieWord
    /\ ps.group = GPlain
    /\ ps.url = USeries
    /\ ps.contentType = "series"

\* what the tags and names of the tagged entries say, read off their text:
\* the integer of a season or episode tag (<<>> when it has none), and the
\* series information the name gives
SeasonTagValue(tag) ==
    IF tag = TSeason0 THEN <<0>> ELSE IF tag = TSeason3 THEN <<3>> ELSE <<>>
EpisodeTagValue(tag) ==
    IF tag = TEpisode0 THEN <<0>> ELSE IF tag = TEpisode4 THEN <<4>> ELSE <<>>
NameSeriesId(name) == IF name = NTaggedEpisode THEN <<"a">> ELSE <<>>
NameSeason(name) == IF name = NTaggedEpisode THEN <<2>> ELSE <<>>
NameEpisode(name) == IF name = NTaggedEpisode THEN <<5>> ELSE <<>>

\* the item of a tagged entry carries the series information of the claim
TagsFirst(item, seriesId, serie, season, episode, name) ==
    /\ item.seriesId = IF seriesId # <<>> THEN <<"7">>
                       ELSE IF serie # <<>> THEN <<"S", "h">>
                       ELSE NameSeriesId(name)
    /\ item.seasonNum = IF SeasonTagValue(season) # <<>>
                        THEN SeasonTagValue(season) ELSE NameSeason(name)
    /\ item.episodeNum = IF EpisodeTagValue(episode) # <<>>
                         THEN EpisodeTagValue(episode) ELSE NameEpisode(name)

\* C13: an emitted item classified as a series has the series id of the
\* series-id tag, else of the series-name tag, else of the name, and the
\* season and episode numbers of the tags whenever these hold an integer,
\* whatever the integer, else those of the name
C13_TagsOverrideName ==
    ps.pc = "done" /\ ps.channels # <<>> /\ ps.channels[1].contentType = "series" =>
        \A seriesId \in TagSeriesId, serie \in TagSerie, season \in TagSeason,
           episode \in TagEpisode, name \in TaggedNames :
            ps.lines[1] = InfLine(seriesId, serie, season, episode, name) =>
                TagsFirst(ps.channels[1], seriesId, serie, season, episode, name)

\* C13: an entry tagged with season 0 whose name carries S02E05 was parsed;
\* the item is a series and its season number is the 2 of the name
C13_Witness ==
    /\ ps.pc = "done"
    /\ ps.lines[1] = InfLine(<<>>, <<>>, TSeason0, TEpisode4, NTaggedEpisode)
    /\ Len(ps.channels) = 1
    /\ ps.channels[1].contentType = "series"
    /\ ps.channels[1].seasonNum = <<2>>
    /\ ps.channels[1].episodeNum = <<4>>
-----------------------------------------------------------------------------
(* Claims about the Xtream client *)

\* the set of one error, when its condition holds
When(condition, message) == IF condition THEN {message} ELSE {}

\* the errors the authentication response calls for: one for each of the
\* conditions it meets; a maximum of 0 connections is no maximum
ClaimedErrors(authData) ==
    LET userInfo == authData.user_info
    IN  When(userInfo.present /\ userInfo.auth = 0, AuthFailedMessage)
        \cup When(userInfo.present /\ userInfo.status = "Expired", ExpiredMessage)
        \cup When(userInfo.present /\ userInfo.status = "Banned", BannedMessage)
        \cup When(userInfo.present /\ userInfo.status = "Disabled", DisabledMessage)
        \cup When(/\ userInfo.present
                  /\ userInfo.max_connections > 0
                  /\ userInfo.active_cons >= userInfo.max_connections,
                  MaxConnectionsMessage(userInfo.active_cons,
                                        userInfo.max_connections))
        \cup ({authData.error, authData.message} \ {<<>>})

\* C14: when the authentication response reports auth = 0, a status of
\* Expired, Banned or Disabled, as many active connections as the maximum or
\* more, or an error or message field, fetchXtreamChannels fails with the
\* error of one of these conditions, and no category or stream request is
\* ever issued
C14_AuthFailureStopsFetch ==
    xt.pc # "idle" /\ ClaimedErrors(xt.server.auth) # {} =>
        /\ \A i \in 1..Len(xt.requests) : xt.requests[i] = "auth"
        /\ xt.pc \in {"ready", "auth", "failed"}
        /\ xt.pc = "failed" /\ xt.completed = <<"auth">> =>
               xt.error \in ClaimedErrors(xt.server.auth)

\* C14: the authentication response carried a message field that speaks of
\* a quota, and the call failed with the error of a full browser storage
C14_Witness ==
    /\ xt.pc = "failed"
    /\ xt.completed = <<"auth">>
    /\ xt.server.auth.message = MessageText
    /\ xt.server.auth.error = <<>>
    /\ xt.requests = <<"auth">>
    /\ xt.error = StorageFullMessage

\* the place of a content type in the returned list
FamilyRank(contentType) ==
    IF contentType = "live" THEN 1 ELSE IF contentType = "movie" THEN 2 ELSE 3

\* the names of the items of one content type, in the order of the list
RECURSIVE NamesOfType(_, _)
NamesOfType(channels, contentType) ==
    IF channels = <<>> THEN <<>>
    ELSE (IF Head(channels).contentType = contentType
          THEN <<Head(channels).name>> ELSE <<>>)
         \o NamesOfType(Tail(channels), contentType)

\* the names of the streams of a response
StreamNames(streams) == [i \in 1..Len(streams) |-> streams[i].name]

\* C15: whatever the order in which the category and stream requests
\* complete, the returned list holds the live items, then the movies, then
\* the series, each family whole and in the order of its response
C15_FamilyOrder ==
    xt.pc = "done" =>
        /\ \A i, j \in 1..Len(xt.result) :
              i < j => FamilyRank(xt.result[i].contentType)
                           <= FamilyRank(xt.result[j].contentType)
        /\ NamesOfType(xt.result, "live") = StreamNames(xt.server.live)
        /\ NamesOfType(xt.result, "movie") = StreamNames(xt.server.vod)
        /\ NamesOfType(xt.result, "series") = StreamNames(xt.server.series)

\* C15: a list of all three families was returned after every stream
\* request had completed before the category request of its family
C15_Witness ==
    /\ xt.pc = "done"
    /\ xt.completed = <<"auth", "get_live_streams", "get_live_categories",
                        "get_vod_streams", "get_vod_categories",
                        "get_series", "get_series_categories">>
    /\ Len(xt.result) = 3
    /\ xt.result[1].contentType = "live"
    /\ xt.result[3].contentType = "series"

\* the records the three producers have handed out
Produced ==
    (IF ps.pc = "done" THEN Range(ps.channels) ELSE {})
    \cup (IF xt.pc # "idle" THEN Range(xt.result) \cup Range(xt.episodes) ELSE {})

\* a series placeholder: no URL and no season or episode number
IsPlaceholder(record) ==
    record.url = <<>> /\ record.seasonNum = <<>> /\ record.episodeNum = <<>>

\* a real episode: a URL and an episode number
IsEpisode(record) == record.url # <<>> /\ record.episodeNum # <<>>

\* C16: every series-typed record that parseM3U, fetchXtreamChannels or
\* fetchXtreamSeriesEpisodes produces is a series placeholder or a real
\* episode
C16_SeriesRecordsClassed ==
    \A record \in Produced :
        record.contentType = "series" => IsPlaceholder(record) \/ IsEpisode(record)

\* C16: parseM3U emitted a series item for an entry without series tags
\* whose name holds a series keyword and no episode pattern: it has a URL
\* and no episode number
C16_Witness ==
    /\ ps.pc = "done"
    /\ ps.lines[1] = InfLine(<<>>, <<>>, <<>>, <<>>, NTaggedSeries)
    /\ Len(ps.channels) = 1
    /\ ps.channels[1].contentType = "series"
    /\ ps.channels[1].url # <<>>
    /\ ps.channels[1].episodeNum = <<>>
-----------------------------------------------------------------------------
(* Claims about the paginated channel list *)

\* record c of the Local Store belongs to the result set of tuple t
Matches(c, t) ==
    /\ c.playlistId = t.active
    /\ t.contentFilter = "all" \/ c.contentType = t.contentFilter
    /\ \/ t.selectedGroup = <<>>
       \/ t.selectedGroup = Favorites /\ c.isFavorite = "true"
       \/ t.selectedGroup # Favorites /\ c.group = t.selectedGroup
    /\ \E i \in 1..(Len(c.name) + 1) :
          /\ i + Len(t.searchQuery) - 1 <= Len(c.name)
          /\ \A k \in 1..Len(t.searchQuery) :
                LowerChar(c.name[i + k - 1]) = LowerChar(t.searchQuery[k])

\* what stands for a record in the list: its series under the series
\* filter, itself otherwise
EntryOf(c, t) ==
    IF t.contentFilter = "series"
    THEN (IF c.seriesId # <<>> THEN c.seriesId
          ELSE IF c.seriesName # <<>> THEN c.seriesName ELSE c.name)
    ELSE <<c.id>>

ShownEntry(item, t) ==
    IF t.contentFilter = "series" THEN item.seriesId ELSE <<item.id>>

ResultSet(t) ==
    {EntryOf(dbChannels[k], t) : k \in {j \in DOMAIN dbChannels : Matches(dbChannels[j], t)}}

InNameOrder(items) ==
    \A i, j \in 1..Len(items) : i < j => LocaleLeq(items[i].name, items[j].name)

\* the first n pages of the result set of t: full pages of distinct entries
\* of the set, in name order, none of them behind a record not yet served
PagesOf(items, n, t) ==
    /\ Len(items) = Min2(n * PageSize, Cardinality(ResultSet(t)))
    /\ \A i \in 1..Len(items) : ShownEntry(items[i], t) \in ResultSet(t)
    /\ \A i, j \in 1..Len(items) :
          i # j => ShownEntry(items[i], t) # ShownEntry(items[j], t)
    /\ InNameOrder(items)
    /\ t.contentFilter # "series" =>
          \A i \in 1..Len(items), k \in DOMAIN dbChannels :
              (Matches(dbChannels[k], t) /\ \A j \in 1..Len(items) : items[j].id # k)
                  => LocaleLeq(items[i].name, dbChannels[k].name)

\* C4: under a filter tuple that stays as it is, the displayed items are
\* always the pages served so far of the sorted (series: grouped and
\* sorted) result set, without duplicate or omission, and once a page has
\* been served hasMore is false exactly when all of the set is displayed
C4_PagesCoverResult ==
    (hk.pc = "mounted" /\ Tuple.active # NULL) =>
        /\ PagesOf(hk.channels, hk.page, Tuple)
        /\ ~hk.fetched => (hk.channels = <<>> /\ hk.hasMore)
        /\ hk.fetched =>
              (hk.hasMore <=> Len(hk.channels) < Cardinality(ResultSet(Tuple)))
        /\ ~hk.hasMore =>
              {ShownEntry(hk.channels[i], Tuple) : i \in 1..Len(hk.channels)}
                  = ResultSet(Tuple)

\* C4: the second page was the last one and a full one
C4_Witness ==
    /\ hk.pc = "mounted"
    /\ Tuple.active # NULL
    /\ hk.page = 2
    /\ Len(hk.channels) = 2 * PageSize
    /\ ~hk.hasMore

TupleNext == TupleOf(playlists', activePlaylistId', hk')

\* C5: a step that changes the filter tuple to another one with an active
\* playlist leaves the list empty, the cache dropped and the page index at
\* zero, and the page that next fills the empty list is the first page of
\* the tuple then current
C5_ChangeResetsList ==
    [][/\ (hk.pc = "mounted" /\ TupleNext # Tuple /\ TupleNext.active # NULL) =>
              /\ hk'.channels = <<>>
              /\ hk'.sorted = <<>>
              /\ ~hk'.fetched
              /\ hk'.page = 0
       /\ (hk.pc = "mounted" /\ hk.channels = <<>> /\ hk'.channels # <<>>) =>
              PagesOf(hk'.channels, 1, TupleNext)]_vars

\* C5: the playlist is active again after it had been without a listed
\* entry: the list shows nothing and offers no further page, no load is
\* under way, and the cache and the page index are those of the last visit
C5_Witness ==
    /\ hk.pc = "mounted"
    /\ Tuple.active # NULL
    /\ ~hk.loading
    /\ hk.channels = <<>>
    /\ ~hk.hasMore
    /\ hk.sorted # <<>>
    /\ hk.page > 0
    /\ ResultSet(Tuple) # {}


\* the items are distinct entries of the result set of t, in name order,
\* none of them behind a record not served
PrefixOfResult(items, t) ==
    /\ \A i \in 1..Len(items) : ShownEntry(items[i], t) \in ResultSet(t)
    /\ \A i, j \in 1..Len(items) :
          i # j => ShownEntry(items[i], t) # ShownEntry(items[j], t)
    /\ InNameOrder(items)
    /\ t.contentFilter # "series" =>
          \A i \in 1..Len(items), k \in DOMAIN dbChannels :
              (Matches(dbChannels[k], t) /\ \A j \in 1..Len(items) : items[j].id # k)
                  => LocaleLeq(items[i].name, dbChannels[k].name)

\* C26: a load that was awaiting the store read when the filter tuple
\* changed is neither appended to the displayed items nor installed as the
\* cached set of the new tuple: once no load is pending, the displayed
\* items are a prefix of the sorted result set of the current tuple and the
\* cached set, if there is one, is that result set
C26_StaleLoadDropped ==
    (hk.pc = "mounted" /\ Tuple.active # NULL /\ ~hk.loading) =>
        /\ PrefixOfResult(hk.channels, Tuple)
        /\ hk.fetched =>
              {ShownEntry(hk.sorted[i], Tuple) : i \in 1..Len(hk.sorted)}
                  = ResultSet(Tuple)

\* C26: no load is pending, and the list displays under the filter 'live'
\* a row that a load begun under the filter 'series' has appended
C26_Witness ==
    /\ hk.pc = "mounted"
    /\ Tuple.active # NULL
    /\ ~hk.loading
    /\ Tuple.contentFilter = "live"
    /\ hk.latest = Params(Tuple)
    /\ \E i \in 1..Len(hk.channels) : hk.channels[i].contentType = "series"

\* C30: under a filter tuple that stays as it is, loadMore called again and
\* again sets hasMore to false, and from then on a step starts no store
\* read, appends nothing to the displayed items and leaves hasMore false
C30_LoadingEnds ==
    /\ <>(hk.pc = "mounted" /\ ~hk.hasMore)
    /\ [][(hk.pc = "mounted" /\ ~hk.hasMore) =>
              /\ ~hk'.hasMore
              /\ hk'.channels = hk.channels
              /\ hk'.sorted = hk.sorted
              /\ hk'.page = hk.page
              /\ ~hk'.loading
              /\ ~hk'.inflight.pending]_vars

\* C30: the third page was the last one and not a full one: nothing
\* further is loaded
C30_Witness ==
    /\ hk.pc = "mounted"
    /\ Tuple.active # NULL
    /\ hk.page = 3
    /\ Len(hk.channels) > 2 * PageSize
    /\ ~hk.hasMore
    /\ ~hk.loading
-----------------------------------------------------------------------------
(* Claims about getChannels *)

\* a record passes the filters the options supply
PassesFilters(r, o) ==
    /\ r.playlistId = o.playlistId
    /\ o.contentType \in {"undefined", "all"} \/ r.contentType = o.contentType
    /\ o.group = <<>> \/ r.group = o.group
    /\ o.isFavorite = "undefined" \/ r.isFavorite = o.isFavorite
    /\ o.searchQuery = <<>>
           \/ \E i \in 1..Len(r.name) : \E j \in i..Len(r.name) :
                  ToLowerCase(SubSeq(r.name, i, j)) = ToLowerCase(o.searchQuery)

\* the same, with the group 'all' read as no group filter
PassesFiltersAllGroups(r, o) ==
    PassesFilters(r, IF o.group = GroupAll THEN [o EXCEPT !.group = <<>>] ELSE o)

\* the slice [offset, offset + limit) of the records of the passing keys,
\* in the order of the keys
SliceOfPassing(store, o, passing) ==
    LET ordered == InKeyOrder(ChannelKeyOrder, passing)
        last == Min2(o.offset + o.limit, Len(ordered))
    IN  [i \in 1..(IF last > o.offset THEN last - o.offset ELSE 0) |->
            store[ordered[o.offset + i]]]

\* C21: getChannels returns the slice [offset, offset + limit) of the
\* records of the playlist (of the content type, when one other than 'all'
\* is given) that pass every supplied filter (group equality, favourite
\* equality, case-insensitive search on the name), and no record of another
\* playlist
C21_SliceOfFiltered ==
    call.op = "getChannels" /\ call.pc = "done" =>
        /\ call.returned = SliceOfPassing(dbChannels, call.options,
                   {k \in DOMAIN dbChannels :
                       PassesFilters(dbChannels[k], call.options)})
        /\ \A i \in 1..Len(call.returned) :
               call.returned[i].playlistId = call.options.playlistId

\* C21: the statement holds when the group 'all' is read as no group filter
C21_SliceOfFilteredAllGroups ==
    call.op = "getChannels" /\ call.pc = "done" =>
        /\ call.returned = SliceOfPassing(dbChannels, call.options,
                   {k \in DOMAIN dbChannels :
                       PassesFiltersAllGroups(dbChannels[k], call.options)})
        /\ \A i \in 1..Len(call.returned) :
               call.returned[i].playlistId = call.options.playlistId

\* C21: getChannels was given the group 'all' and has returned a record of
\* another group
C21_Witness ==
    /\ call.op = "getChannels"
    /\ call.pc = "done"
    /\ call.options.group = GroupAll
    /\ \E i \in 1..Len(call.returned) : call.returned[i].group # GroupAll
-----------------------------------------------------------------------------
(* Claims about groupSeriesEpisodes *)

\* the key and the display name of every row
KeysAndNames(rows) ==
    {<<SeriesKey(rows[i]), rows[i].name>> : i \in 1..Len(rows)}

\* C22: groupSeriesEpisodes applied to its own output returns the same
\* rows, with the same keys and display names
C22_GroupingIdempotent ==
    hk.pc = "regrouped" =>
        /\ hk.again = hk.rows
        /\ KeysAndNames(hk.again) = KeysAndNames(hk.rows)

\* C22: the output of a grouping that merged records of one series has been
\* grouped again
C22_Witness ==
    /\ hk.pc = "regrouped"
    /\ Len(hk.rows) > 1
    /\ Len(hk.rows) < Len(hk.episodes)

\* a record's key: its series id if present, else its series name, else
\* its raw name
KeyOf(c) ==
    IF c.seriesId # <<>> THEN c.seriesId
    ELSE IF c.seriesName # <<>> THEN c.seriesName
    ELSE c.name

\* S, digits, E, digits begin at position i of the name
TagBeginsAt(name, i) ==
    /\ i \in 1..Len(name)
    /\ name[i] \in {"S", "s"}
    /\ \E e \in (i + 2)..(Len(name) - 1) :
          /\ \A k \in (i + 1)..(e - 1) : name[k] \in Digits
          /\ name[e] \in {"E", "e"}
          /\ name[e + 1] \in Digits

\* shown is the raw name without its season/episode suffix and without
\* the blanks around what is left
IsStripped(raw, shown) ==
    IF \E i \in 1..Len(raw) : TagBeginsAt(raw, i)
    THEN \E i \in 1..Len(raw) :
            /\ TagBeginsAt(raw, i)
            /\ \A j \in 1..(i - 1) : ~TagBeginsAt(raw, j)
            /\ shown = Trim(SubSeq(raw, 1, i - 1))
    ELSE shown = Trim(raw)

\* the resolved series name of a record
IsResolvedName(c, shown) ==
    IF c.seriesName # <<>> THEN shown = c.seriesName ELSE IsStripped(c.name, shown)

\* the first record of the list that has the key
FirstOfKey(episodes, key) ==
    episodes[CHOOSE i \in 1..Len(episodes) :
                 /\ KeyOf(episodes[i]) = key
                 /\ \A j \in 1..(i - 1) : KeyOf(episodes[j]) # key]

\* the row stands for the record: the record's fields, its display name and
\* series name the resolved name, its series id the key
StandsFor(row, c) ==
    /\ IsResolvedName(c, row.name)
    /\ row = [c EXCEPT !.name = row.name, !.seriesName = row.name,
                       !.seriesId = KeyOf(c)]

\* C23: groupSeriesEpisodes returns one row per distinct series key (series
\* id, else series name, else raw name); the row is the first record of the
\* key with the resolved series name (the explicit series name, else the raw
\* name without its season/episode suffix) as display name; the rows are in
\* alphabetical order
C23_OneRowPerKey ==
    hk.pc \in {"grouped", "regrouped"} =>
        LET keys == {KeyOf(hk.episodes[i]) : i \in 1..Len(hk.episodes)}
        IN  /\ Len(hk.rows) = Cardinality(keys)
            /\ \A key \in keys : \E i \in 1..Len(hk.rows) :
                   StandsFor(hk.rows[i], FirstOfKey(hk.episodes, key))
            /\ \A i \in 1..(Len(hk.rows) - 1) :
                   LocaleLeq(hk.rows[i].name, hk.rows[i + 1].name)

\* C23: three records of two keys were grouped into two rows, and the
\* display name of one is a raw name without its suffix
C23_Witness ==
    /\ hk.pc = "grouped"
    /\ Len(hk.episodes) = 3
    /\ Len(hk.rows) = 2
    /\ \E i \in 1..2 : \E j \in 1..3 :
           /\ hk.rows[i].id = hk.episodes[j].id
           /\ hk.rows[i].name # hk.episodes[j].name
           /\ hk.episodes[j].seriesName = <<>>
-----------------------------------------------------------------------------
(* Claims about the store connection *)

\* C24: at most one open of the store is begun between two resets, however
\* the getDB calls overlap
C24_SingleOpen == Cardinality(conn.current) <= 1

\* C24: two opens of one period never follow one another: the second began
\* while an open was awaited
C24_SingleOpenUnlessOverlapped ==
    Cardinality(conn.current) > 1 => conn.overlapped

\* C24: two getDB calls have each called openDB and both opens have
\* resolved: two connections are open
C24_Witness ==
    /\ conn.pc = "run"
    /\ Cardinality(conn.current) = 2
    /\ conn.pending = {}
    /\ Cardinality(conn.live) = 2
-----------------------------------------------------------------------------
(* Claims about the play history *)

\* the history as the claim describes it
HistoryInOrder ==
    /\ Len(history) <= HistoryLimit
    /\ \A i, j \in 1..Len(history) :
           i # j => history[i].channelId # history[j].channelId
    /\ \A i \in 1..(Len(history) - 1) :
           history[i].timestamp >= history[i + 1].timestamp

\* C25: after any sequence of setCurrentChannel and addToHistory calls the
\* history holds at most 50 entries, at most one per channel id, and is
\* ordered most-recent-first, the channel played last at its head
C25_HistoryBounded ==
    /\ [](HistoryInOrder)
    /\ [][/\ \A id \in PlayedIds :
                SetCurrentChannel(PlayedChannel(id)) =>
                    /\ history'[1].channelId = id
                    /\ history'[1].timestamp = now'
          /\ \A id \in PlayedIds :
                AddToHistory(HistoryItem(id, <<"n">>, "", <<>>)) =>
                    /\ history'[1].channelId = id
                    /\ history'[1].timestamp = now'
          /\ SetCurrentChannel(NullChannel) => history' = history]_vars

\* C25: a full history has taken a channel that was not in it, and a
\* channel that was in it has been played again
C25_Witness ==
    /\ Len(history) = HistoryLimit
    /\ history[1].channelId = 1
    /\ \E i \in 2..Len(history) : history[i].channelId = HistoryLimit + 1
    /\ \A i \in 1..Len(history) : history[i].channelId # 2
-----------------------------------------------------------------------------
(* Claims about the playlist list of the UI store *)

\* C29: after any sequence of addPlaylist, removePlaylist, setActivePlaylist
\* (of a listed playlist) and refreshPlaylists, activePlaylistId is null or
\* the id of a playlist of the list
C29_ActiveIsListed ==
    activePlaylistId = NULL \/ activePlaylistId \in StoreIds(playlists)

\* C29: the active playlist was removed, a playlist remains, and
\* activePlaylistId is the id of none of the list
C29_Witness ==
    /\ playlists # <<>>
    /\ activePlaylistId # NULL
    /\ activePlaylistId \notin StoreIds(playlists)
-----------------------------------------------------------------------------
(* Claims about the series drawer *)

\* the key and the display name of every row, in the order of the rows
RowKeysAndNames(rows) ==
    [i \in 1..Len(rows) |-> <<SeriesKey(rows[i]), rows[i].name>>]

\* C27: once a drawer has fetched and saved the episodes of a series, a
\* drawer opened for the series again serves episodes of the series from
\* the Local Store: it issues no remote request and the store stays as it is
C27_ReopenServedLocally ==
    [][(dr.pc = "closed" /\ dr'.pc # "closed" /\ dr'.seriesId \in dr.saved) =>
           /\ dr'.pc = "open"
           /\ dr'.source = "cache"
           /\ \E i \in 1..Len(dr'.seasons) : dr'.seasons[i].seriesId = dr'.seriesId
           /\ dr'.requests = dr.requests
           /\ dbChannels' = dbChannels]_vars

\* C27, for a playlist that holds fewer series records than the default
\* limit of getChannels
C27_ReopenServedLocallyBelowLimit ==
    [][(/\ dr.pc = "closed" /\ dr'.pc # "closed" /\ dr'.seriesId \in dr.saved
        /\ Cardinality(DOMAIN dbChannels) < DefaultLimit) =>
           /\ dr'.pc = "open"
           /\ dr'.source = "cache"
           /\ \E i \in 1..Len(dr'.seasons) : dr'.seasons[i].seriesId = dr'.seriesId
           /\ dr'.requests = dr.requests
           /\ dbChannels' = dbChannels]_vars

\* C27: the drawer of a series whose episodes were fetched and saved is
\* open again and shows them from the Local Store
C27_Witness ==
    /\ dr.pc = "open"
    /\ dr.source = "cache"
    /\ dr.seriesId \in dr.saved
    /\ dr.requests = 1

\* C28: the step in which the drawer saves the episodes it fetched leaves
\* the series listing as it was: the same rows in the same order, with the
\* same series keys and display names
C28_AppendKeepsListing ==
    [][(dr.pc = "fetching" /\ dr'.source = "remote" /\ dr'.seasons # <<>>) =>
           RowKeysAndNames(SeriesListing(dbChannels', activePlaylistId))
               = RowKeysAndNames(SeriesListing(dbChannels, activePlaylistId))]_vars

\* C28, for episodes that come behind the placeholder of their series in
\* the order of the store
C28_AppendBehindKeepsListing ==
    [][(/\ dr.pc = "fetching" /\ dr'.source = "remote" /\ dr'.seasons # <<>>
        /\ \A i \in 1..Len(dr'.seasons) : dr'.seasons[i].id > 1) =>
           RowKeysAndNames(SeriesListing(dbChannels', activePlaylistId))
               = RowKeysAndNames(SeriesListing(dbChannels, activePlaylistId))]_vars

\* C28: the drawer has saved an episode with a title of its own
C28_Witness ==
    /\ dr.pc = "open"
    /\ dr.source = "remote"
    /\ \E i \in 1..Len(dr.seasons) : dr.seasons[i].name # dr.seriesName
-----------------------------------------------------------------------------
(* The application: imports, updates, the sidebar and the channel list *)

MgIdle == [pc |-> "idle"]
HkIdle == [pc |-> "idle"]
PsIdle == [pc |-> "idle"]
XtIdle == [pc |-> "idle"]
ConnIdle == [pc |-> "idle"]
DrIdle == [pc |-> "idle"]

\* the connection, the history and the drawer, when they take no part
LateInit ==
    /\ conn = ConnIdle
    /\ history = <<>>
    /\ currentChannel = NullChannel
    /\ now = 0
    /\ dr = DrIdle

AppInit ==
    /\ dbPlaylists = EmptyStore
    /\ dbChannels = EmptyStore
    /\ wPlaylists = EmptyStore
    /\ wChannels = EmptyStore
    /\ tx = TxIdle
    /\ playlists = <<>>
    /\ activePlaylistId = NULL
    /\ playlistToUpdate = NULL
    /\ imp = ImpIdle
    /\ favMarks = {}
    /\ deletedIds = {}

Init ==
    /\ AppInit
    /\ mg = MgIdle
    /\ hk = HkIdle
    /\ xt = XtIdle
    /\ call = NoCall
    /\ LateInit
    /\ ps = PsIdle

\* one run of a handler, for every input the source and the store can give it
ImportRun ==
    \E kind \in {"m3u", "xtream", "file"}, option \in {"live", "all"} :
    \E outcome \in Outcomes(kind) :
    \E items \in Fetched(outcome) :
    \E saved \in SaveOutcomes(outcome, items, option) :
        Import(kind, option, outcome, items, saved)

Next ==
    \/ ImportRun /\ UNCHANGED ghostVars
    \/ ImportClose /\ UNCHANGED ghostVars
    \/ ResetAndReload /\ UNCHANGED ghostVars
    \/ \E id \in PlaylistIds \cup {UnsavedId} :
           SetActivePlaylist(id) /\ UNCHANGED ghostVars
    \/ \E id \in PlaylistIds \cup {UnsavedId} :
           RemovePlaylist(id) /\ UNCHANGED ghostVars
    \/ \E id \in PlaylistIds \cup {UnsavedId} :
           SetPlaylistToUpdate(id) /\ UNCHANGED ghostVars
    \/ \E cid \in ChannelIds : ToggleFavorite(cid) /\ UNCHANGED ghostVars

Spec == Init /\ [][Next]_vars

\* imports, updates and favourite toggles, with the history of the stars
NextFav ==
    \/ ImportRun /\ UNCHANGED ghostVars
    \/ \E id \in PlaylistIds \cup {UnsavedId} :
           SetPlaylistToUpdate(id) /\ UNCHANGED ghostVars
    \/ \E cid \in ChannelIds :
           ToggleFavorite(cid) /\ MarkToggled(cid) /\ UNCHANGED deletedIds

SpecFav == Init /\ [][NextFav]_vars

\* imports, updates and deletions, with the history of the deletions
NextDel ==
    \/ ImportRun /\ UNCHANGED ghostVars
    \/ \E id \in PlaylistIds \cup {UnsavedId} :
           SetPlaylistToUpdate(id) /\ UNCHANGED ghostVars
    \/ \E id \in PlaylistIds \cup {UnsavedId} :
           RemovePlaylist(id) /\ MarkDeleted(id) /\ UNCHANGED favMarks

SpecDel == Init /\ [][NextDel]_vars

\* savePlaylist alone, request by request
SpecDB == Init /\ [][NextDB]_vars

\* the writers of the Local Store, call by call
SpecStore == Init /\ [][NextStore]_vars

\* the favourite merge alone, on every pair of lists within the bound
InitMerge ==
    /\ AppInit
    /\ hk = HkIdle
    /\ xt = XtIdle
    /\ call = NoCall
    /\ LateInit
    /\ ps = PsIdle
    /\ \E existing \in MergeLists(ExistingItems), fresh \in MergeLists(FreshItems) :
           mg = MgReady(existing, fresh)

SpecMerge == InitMerge /\ [][MergeRun]_vars

\* parseM3U alone, on every content within the bound
InitParse ==
    /\ AppInit
    /\ mg = MgIdle
    /\ hk = HkIdle
    /\ xt = XtIdle
    /\ call = NoCall
    /\ LateInit
    /\ \E lines \in Contents : ps = PsReady(lines)

SpecParse == InitParse /\ [][ParseRun]_vars

\* detectContentType alone, on every name, group and URL of the pools
InitDetect ==
    /\ AppInit
    /\ mg = MgIdle
    /\ hk = HkIdle
    /\ xt = XtIdle
    /\ call = NoCall
    /\ LateInit
    /\ \E name \in DetectNames, group \in DetectGroups, url \in DetectUrls :
           ps = DetectReady(name, group, url)

SpecDetect == InitDetect /\ [][DetectRun]_vars

\* parseM3U on one tagged entry, for every combination of series tags
InitSeries ==
    /\ AppInit
    /\ mg = MgIdle
    /\ hk = HkIdle
    /\ xt = XtIdle
    /\ call = NoCall
    /\ LateInit
    /\ \E lines \in SeriesContents : ps = PsReady(lines)

SpecSeries == InitSeries /\ [][ParseRun]_vars

\* the Xtream client alone, against every server of the pools
InitXtream ==
    /\ AppInit
    /\ mg = MgIdle
    /\ hk = HkIdle
    /\ ps = PsIdle
    /\ call = NoCall
    /\ LateInit
    /\ \E server \in Servers : xt = XtReady(server)

SpecXtream == InitXtream /\ [][NextXtream]_vars

\* getChannels alone, on every store and every combination of options
InitGet ==
    /\ dbPlaylists = ListPlaylists
    /\ dbChannels \in GetStores
    /\ wPlaylists = EmptyStore
    /\ wChannels = EmptyStore
    /\ tx = TxIdle
    /\ playlists = <<>>
    /\ activePlaylistId = NULL
    /\ playlistToUpdate = NULL
    /\ imp = ImpIdle
    /\ favMarks = {}
    /\ deletedIds = {}
    /\ mg = MgIdle
    /\ hk = HkIdle
    /\ ps = PsIdle
    /\ xt = XtIdle
    /\ LateInit
    /\ \E options \in GetOptions : call = GcReady(options)

SpecGet == InitGet /\ [][GetChannelsCall]_vars

\* groupSeriesEpisodes alone, on every list of records within the bound
InitGroup ==
    /\ AppInit
    /\ mg = MgIdle
    /\ ps = PsIdle
    /\ xt = XtIdle
    /\ call = NoCall
    /\ LateInit
    /\ \E episodes \in EpisodeLists : hk = GrReady(episodes)

SpecGroup == InitGroup /\ [][NextGroup]_vars

\* getDB and resetDatabase alone
InitConn ==
    /\ AppInit
    /\ mg = MgIdle
    /\ hk = HkIdle
    /\ ps = PsIdle
    /\ xt = XtIdle
    /\ call = NoCall
    /\ conn = ConnReady
    /\ history = <<>>
    /\ currentChannel = NullChannel
    /\ now = 0
    /\ dr = DrIdle

SpecConn == InitConn /\ [][NextConn]_vars

\* the play history alone, from the histories a run can start with
InitHistory ==
    /\ AppInit
    /\ mg = MgIdle
    /\ hk = HkIdle
    /\ ps = PsIdle
    /\ xt = XtIdle
    /\ call = NoCall
    /\ conn = ConnIdle
    /\ \E n \in {0, HistoryLimit - 1, HistoryLimit} : history = PlayedInTurn(n)
    /\ currentChannel = NullChannel
    /\ now = HistoryLimit
    /\ dr = DrIdle

SpecHistory == InitHistory /\ [][NextHistory]_vars

\* the playlist list of the UI store alone, over every 'playlists' store
InitUi ==
    /\ dbPlaylists \in {[k \in ids |-> ListPlaylists[k]] : ids \in SUBSET PlaylistIds}
    /\ dbChannels = EmptyStore
    /\ wPlaylists = EmptyStore
    /\ wChannels = EmptyStore
    /\ tx = TxIdle
    /\ playlists = <<>>
    /\ activePlaylistId = NULL
    /\ playlistToUpdate = NULL
    /\ imp = ImpIdle
    /\ favMarks = {}
    /\ deletedIds = {}
    /\ mg = MgIdle
    /\ hk = HkIdle
    /\ ps = PsIdle
    /\ xt = XtIdle
    /\ call = NoCall
    /\ LateInit

SpecUi == InitUi /\ [][NextUi]_vars

\* the page specifications start from a store that holds two playlists and
\* their channels, both listed, and from the hook before its first render
InitList(stores) ==
    /\ dbPlaylists = ListPlaylists
    /\ dbChannels \in stores
    /\ wPlaylists = EmptyStore
    /\ wChannels = EmptyStore
    /\ tx = TxIdle
    /\ playlists = RefreshedList(ListPlaylists)
    /\ activePlaylistId \in PlaylistIds \cup {NULL}
    /\ playlistToUpdate = NULL
    /\ imp = ImpIdle
    /\ favMarks = {}
    /\ deletedIds = {}
    /\ mg = MgIdle
    /\ ps = PsIdle
    /\ xt = XtIdle
    /\ call = NoCall
    /\ LateInit
    /\ \E query \in SearchQueries, group \in SelectedGroups, filter \in ContentFilters :
           hk = HkUnmounted(query, group, filter)

SpecPages == InitList(ListStores) /\ [][NextPages]_vars

SpecList == InitList({FullListStore}) /\ [][NextList]_vars

\* the component mounts, every store read resolves, and loadMore is called
\* as long as a call changes anything
SpecCalls ==
    /\ InitList(ListStores)
    /\ [][NextCalls]_vars
    /\ WF_vars(NextCalls)

\* the drawer specification starts from an active playlist that holds the
\* placeholders of its series, with the drawer closed
InitDrawer(counts) ==
    /\ \E n \in counts, type \in {"xtream", "m3u"}, seasons \in DrawerSeasons :
          /\ dbPlaylists = [k \in {"p1"} |-> DrawerPlaylist(type, n)]
          /\ dbChannels = DrawerStore(n)
          /\ playlists = <<DrawerPlaylist(type, n)>>
          /\ dr = DrClosed(seasons, DrawerFree(n))
    /\ wPlaylists = EmptyStore
    /\ wChannels = EmptyStore
    /\ tx = TxIdle
    /\ activePlaylistId = "p1"
    /\ playlistToUpdate = NULL
    /\ imp = ImpIdle
    /\ favMarks = {}
    /\ deletedIds = {}
    /\ mg = MgIdle
    /\ hk = HkIdle
    /\ ps = PsIdle
    /\ xt = XtIdle
    /\ call = NoCall
    /\ conn = ConnIdle
    /\ history = <<>>
    /\ currentChannel = NullChannel
    /\ now = 0

SpecDrawer == InitDrawer(SeriesCounts) /\ [][NextDrawer]_vars

\* the drawer over a playlist of two series
SpecAppend == InitDrawer({2}) /\ [][NextDrawer]_vars

====
